---------------------------- MODULE Spec2Model ----------------------------
(***************************************************************************)
(* Session, cache, rate-limit and tenant-connection coordination layer of  *)
(* the jeweler SaaS backend (arman-gold).                                  *)
(*                                                                         *)
(* Every asynchronous function of the source is modelled as a sequence of  *)
(* steps: the code between two `await`s runs atomically (one JavaScript    *)
(* event loop), the awaited store call is one atomic step of the store.    *)
(* Several requests ("workers") run such functions concurrently.           *)
(***************************************************************************)
EXTENDS Integers, Sequences, FiniteSets, TLC

Workers == {"w1", "w2"}

(***************************************************************************)
(* Bounds of the model.                                                    *)
(***************************************************************************)
\* PrismaClient instances constructed in one run
MaxClients == 3
\* updateTenant calls in one run
MaxUpdates == 1
\* closeTenantDb and closeAllTenantConnections calls in one run
MaxCloses == 2
\* the clock advances in steps of TickMs up to MaxNow (milliseconds)
TickMs == 500
MaxNow == 2000
\* options.windowMs of the modelled limiter (milliseconds)
WindowMs == 1500
\* requests handled by the rate limiter in one run
MaxCalls == 4
\* resetRateLimit calls in one run
MaxResets == 1
\* store calls of the rate limiter that fail in one run
MaxStoreErrors == 1
\* cache operations in one run
MaxCacheOps == 2
\* sessions created in one run
MaxSessions == 2
\* session operations in one run
MaxSessionOps == 3

VARIABLES
    platformTenants,    \* platformDb.tenant: tenant id -> status (or "MISSING")
    tenantConnections,  \* the Map tenantId -> PrismaClient (0: no entry)
    clients,            \* every PrismaClient constructed so far
    reg,                \* per worker: position inside getTenantDb
    updates,            \* number of updateTenant calls so far
    closes,             \* number of closeTenantDb and closeAll calls so far
    rel,                \* per closer: where its close call stands
    now,                \* Date.now() and the store's clock, in milliseconds
    rlCounters,         \* the store's keys rate_limit:{key}:{window}
    rl,                 \* per worker: position inside the limiter
    rlLog,              \* per counter key: what its last INCR returned (history)
    rlUsed,             \* requests, resets and store errors so far, and the
                        \* counter keys an INCR has been executed on (history)
    cacheStore,         \* the store's keys written by the CacheService
    cache,              \* per worker: position inside a cache operation
    cacheUsed,          \* cache operations started so far
    sessKeys,           \* the store's keys session:{sessionId}
    userSets,           \* the store's sets user_sessions:{userId}
    sess,               \* per worker: position inside a session operation
    sessUsed,           \* session operations and ids so far, and per id what
                        \* createSession was passed (history)
    tm                  \* per request: position inside tenantMiddleware

regVars == <<platformTenants, tenantConnections, clients, reg, updates, closes, rel>>

rlVars == <<rlCounters, rl, rlLog, rlUsed>>

cacheVars == <<cacheStore, cache, cacheUsed>>

sessVars == <<sessKeys, userSets, sess, sessUsed>>

tenantVars == <<tm>>

vars == <<platformTenants, tenantConnections, clients, reg, updates, closes, rel,
          now, rlCounters, rl, rlLog, rlUsed, cacheStore, cache, cacheUsed,
          sessKeys, userSets, sess, sessUsed, tm>>

\* what the actions of one component leave alone
nonRegVars == <<now, rlVars, cacheVars, sessVars, tenantVars>>
nonRlVars == <<regVars, cacheVars, sessVars, tenantVars>>
nonCacheVars == <<regVars, rlVars, sessVars, tenantVars>>
nonSessVars == <<regVars, rlVars, cacheVars, tenantVars>>
nonTenantVars == <<regVars, now, rlVars, cacheVars, sessVars>>

-----------------------------------------------------------------------------
(***************************************************************************)
(* TenantConnectionRegistry: database/connection.ts                        *)
(***************************************************************************)
Tenants == {"t1", "t2", "t3"}

TenantStatus == {"TRIAL", "ACTIVE", "SUSPENDED", "CANCELLED"}

ErrNotFound == "Tenant not found"
ErrInactive == "Tenant is not active"
ErrConnect == "Database connection failed for tenant"

RegIdle == [pc |-> "idle", tenant |-> "t1", client |-> 0, result |-> "none"]

\* the callers of closeTenantDb and closeAllTenantConnections
Closers == {"r1"}

ErrDisconnect == "disconnect failed"

\* again: the caller's previous call was a closeTenantDb of the same tenant
\* that closed its client (history)
RelIdle == [pc |-> "idle", op |-> "none", tenant |-> "t1", client |-> 0,
            pending |-> {}, result |-> "none", again |-> FALSE]

RegInit ==
    /\ platformTenants = [t \in Tenants |->
                            CASE t = "t1" -> "ACTIVE"
                              [] t = "t2" -> "SUSPENDED"
                              [] OTHER    -> "MISSING"]
    /\ tenantConnections = [t \in Tenants |-> 0]
    /\ clients = <<>>
    /\ reg = [w \in Workers |-> RegIdle]
    /\ updates = 0
    /\ closes = 0
    /\ rel = [r \in Closers |-> RelIdle]

\* tenant.status !== 'ACTIVE' && tenant.status !== 'TRIAL' is the failing case
StatusAllowedLax(status) == status # "CANCELLED"

StatusAllowed(status) == status = "ACTIVE" \/ status = "TRIAL"

\* the Map after $connect() rejected: the throw precedes tenantConnections.set
RegistryAfterFailedConnectEager(t, c) == [tenantConnections EXCEPT ![t] = c]

RegistryAfterFailedConnect(t, c) == tenantConnections

\* calls that have passed the cache check and not yet constructed their client
PendingLookups == Cardinality({w \in Workers : reg[w].pc = "findUnique"})

\* getTenantDb up to its first await: the cache check
getTenantDb_Start(w, t) ==
    /\ reg[w].pc = "idle"
    /\ IF tenantConnections[t] # 0
         THEN reg' = [reg EXCEPT ![w] = [pc |-> "done", tenant |-> t,
                                         client |-> tenantConnections[t],
                                         result |-> "ok"]]
         ELSE /\ Len(clients) + PendingLookups < MaxClients
              /\ reg' = [reg EXCEPT ![w] = [pc |-> "findUnique", tenant |-> t,
                                            client |-> 0, result |-> "none"]]
    /\ UNCHANGED <<platformTenants, tenantConnections, clients, updates, closes, rel>>
    /\ UNCHANGED nonRegVars

\* platformDb.tenant.findUnique resolves; the status checks; new PrismaClient
getTenantDb_FindUnique(w) ==
    /\ reg[w].pc = "findUnique"
    /\ LET t == reg[w].tenant
           st == platformTenants[t]
       IN  IF st = "MISSING"
             THEN /\ reg' = [reg EXCEPT ![w].pc = "done", ![w].result = ErrNotFound]
                  /\ UNCHANGED clients
             ELSE IF ~StatusAllowed(st)
               THEN /\ reg' = [reg EXCEPT ![w].pc = "done", ![w].result = ErrInactive]
                    /\ UNCHANGED clients
               ELSE /\ clients' = Append(clients, [tenant |-> t, state |-> "connecting",
                                                   by |-> w, status |-> st])
                    /\ reg' = [reg EXCEPT ![w].pc = "connect",
                                          ![w].client = Len(clients) + 1]
    /\ UNCHANGED <<platformTenants, tenantConnections, updates, closes, rel>>
    /\ UNCHANGED nonRegVars

\* tenantDb.$connect() resolves or rejects
getTenantDb_Connect(w) ==
    /\ reg[w].pc = "connect"
    /\ LET t == reg[w].tenant
           c == reg[w].client
       IN  \E ok \in BOOLEAN :
             IF ok
               THEN /\ clients' = [clients EXCEPT ![c].state = "open"]
                    /\ tenantConnections' = [tenantConnections EXCEPT ![t] = c]
                    /\ reg' = [reg EXCEPT ![w].pc = "done", ![w].result = "ok"]
               ELSE /\ clients' = [clients EXCEPT ![c].state = "failed"]
                    /\ tenantConnections' = RegistryAfterFailedConnect(t, c)
                    /\ reg' = [reg EXCEPT ![w].pc = "done", ![w].result = ErrConnect]
    /\ UNCHANGED <<platformTenants, updates, closes, rel>>
    /\ UNCHANGED nonRegVars

\* the caller has its handle or its error; the worker takes the next request
getTenantDb_Return(w) ==
    /\ reg[w].pc = "done"
    /\ reg' = [reg EXCEPT ![w] = RegIdle]
    /\ UNCHANGED <<platformTenants, tenantConnections, clients, updates, closes, rel>>
    /\ UNCHANGED nonRegVars

\* TenantService.updateTenant with a status
updateTenant(t, st) ==
    /\ updates < MaxUpdates
    /\ platformTenants[t] # "MISSING"
    /\ platformTenants[t] # st
    /\ platformTenants' = [platformTenants EXCEPT ![t] = st]
    /\ updates' = updates + 1
    /\ UNCHANGED <<tenantConnections, clients, reg, closes, rel>>
    /\ UNCHANGED nonRegVars

\* tenantConnections.delete(tenantId)
RegistryKept(t) == tenantConnections

RegistryAfterClose(t) == [tenantConnections EXCEPT ![t] = 0]

\* closeTenantDb up to its await: without an entry it returns at once
closeTenantDb_Start(r, t) ==
    /\ rel[r].pc = "idle"
    /\ closes < MaxCloses
    /\ closes' = closes + 1
    /\ LET again == /\ rel[r].op = "close" /\ rel[r].tenant = t
                     /\ rel[r].client # 0 /\ rel[r].result = "closed"
       IN  rel' = [rel EXCEPT ![r] =
             IF tenantConnections[t] = 0
               THEN [RelIdle EXCEPT !.pc = "done", !.op = "close", !.tenant = t,
                                    !.result = "closed", !.again = again]
               ELSE [RelIdle EXCEPT !.pc = "disconnect", !.op = "close", !.tenant = t,
                                    !.client = tenantConnections[t],
                                    !.again = again]]
    /\ UNCHANGED <<platformTenants, tenantConnections, clients, reg, updates>>
    /\ UNCHANGED nonRegVars

\* connection.$disconnect() resolves, and the entry is deleted, or it rejects
closeTenantDb_Disconnect(r) ==
    /\ rel[r].pc = "disconnect"
    /\ LET t == rel[r].tenant
           c == rel[r].client
       IN  \E ok \in BOOLEAN :
             IF ok
               THEN /\ clients' = [clients EXCEPT ![c].state = "closed"]
                    /\ tenantConnections' = RegistryAfterClose(t)
                    /\ rel' = [rel EXCEPT ![r].pc = "done", ![r].result = "closed"]
               ELSE /\ clients' = [clients EXCEPT ![c].state = "closeFailed"]
                    /\ UNCHANGED tenantConnections
                    /\ rel' = [rel EXCEPT ![r].pc = "done", ![r].result = ErrDisconnect]
    /\ UNCHANGED <<platformTenants, reg, updates, closes>>
    /\ UNCHANGED nonRegVars

\* the clients that the registry holds
RegistryClients == {tenantConnections[t] : t \in Tenants} \ {0}

\* tenantConnections.clear()
RegistryCleared == [t \in Tenants |-> 0]

\* closeAllTenantConnections up to its await: $disconnect() is called on
\* every client of the Map; Promise.all of no promise resolves and the Map is
\* cleared
closeAllTenantConnections_Start(r) ==
    /\ rel[r].pc = "idle"
    /\ closes < MaxCloses
    /\ closes' = closes + 1
    /\ IF RegistryClients = {}
         THEN /\ rel' = [rel EXCEPT ![r] = [RelIdle EXCEPT !.pc = "done",
                                                           !.op = "closeAll",
                                                           !.result = "closed all"]]
              /\ tenantConnections' = RegistryCleared
         ELSE /\ rel' = [rel EXCEPT ![r] = [RelIdle EXCEPT !.pc = "disconnectAll",
                                                           !.op = "closeAll",
                                                           !.pending = RegistryClients]]
              /\ UNCHANGED tenantConnections
    /\ UNCHANGED <<platformTenants, clients, reg, updates>>
    /\ UNCHANGED nonRegVars

\* one $disconnect() of the batch resolves; when it was the last one,
\* Promise.all resolves and the Map is cleared
closeAllTenantConnections_Resolve(r) ==
    /\ rel[r].pc = "disconnectAll"
    /\ \E c \in rel[r].pending :
         /\ clients' = [clients EXCEPT ![c].state = "closed"]
         /\ IF rel[r].pending = {c}
              THEN /\ tenantConnections' = RegistryCleared
                   /\ rel' = [rel EXCEPT ![r].pc = "done", ![r].pending = {},
                                         ![r].result = "closed all"]
              ELSE /\ UNCHANGED tenantConnections
                   /\ rel' = [rel EXCEPT ![r].pending = @ \ {c}]
    /\ UNCHANGED <<platformTenants, reg, updates, closes>>
    /\ UNCHANGED nonRegVars

\* one $disconnect() of the batch rejects: Promise.all rejects, the call
\* throws and clear() is not reached; the other disconnects run to their end
closeAllTenantConnections_Reject(r) ==
    /\ rel[r].pc = "disconnectAll"
    /\ \E c \in rel[r].pending :
         clients' = [i \in DOMAIN clients |->
                       IF i = c THEN [clients[i] EXCEPT !.state = "closeFailed"]
                       ELSE IF i \in rel[r].pending THEN [clients[i] EXCEPT !.state = "closed"]
                       ELSE clients[i]]
    /\ rel' = [rel EXCEPT ![r].pc = "done", ![r].pending = {},
                          ![r].result = ErrDisconnect]
    /\ UNCHANGED <<platformTenants, tenantConnections, reg, updates, closes>>
    /\ UNCHANGED nonRegVars

\* the caller takes the outcome of its call
close_Return(r) ==
    /\ rel[r].pc = "done"
    /\ rel' = [rel EXCEPT ![r].pc = "idle"]
    /\ UNCHANGED <<platformTenants, tenantConnections, clients, reg, updates, closes>>
    /\ UNCHANGED nonRegVars

NextRegistry ==
    \/ \E w \in Workers, t \in Tenants : getTenantDb_Start(w, t)
    \/ \E w \in Workers : getTenantDb_FindUnique(w)
    \/ \E w \in Workers : getTenantDb_Connect(w)
    \/ \E w \in Workers : getTenantDb_Return(w)
    \/ \E t \in Tenants, st \in TenantStatus : updateTenant(t, st)

\* the registry with its close functions, which run at shutdown and when a
\* tenant is taken out of service
NextRelease ==
    \/ NextRegistry
    \/ \E r \in Closers, t \in Tenants : closeTenantDb_Start(r, t)
    \/ \E r \in Closers : closeTenantDb_Disconnect(r)
    \/ \E r \in Closers : closeAllTenantConnections_Start(r)
    \/ \E r \in Closers : closeAllTenantConnections_Resolve(r)
    \/ \E r \in Closers : closeAllTenantConnections_Reject(r)
    \/ \E r \in Closers : close_Return(r)

-----------------------------------------------------------------------------
(***************************************************************************)
(* The store's clock.  A key with an expiry is gone once the clock has     *)
(* reached it; exp = -1 is a key without expiry (the TTL command's -1).    *)
(***************************************************************************)
SecMs == 1000

NoExpiry == -1

Alive(exp, t) == exp = NoExpiry \/ t < exp

-----------------------------------------------------------------------------
(***************************************************************************)
(* RateLimiter: middleware/rateLimiter.ts                                  *)
(***************************************************************************)
RlKeys == {"k1", "k2"}

\* the keys that concurrent requests contend for
RlHotKeys == {"k1"}

Windows == 0..(MaxNow \div WindowMs)

\* maxRequests of the limiter, as in the test "should enforce rate limits"
MaxRequests == 3

RlRedisKeys == RlKeys \X Windows

NoCounter == [present |-> FALSE, count |-> 0, exp |-> NoExpiry]

NoInfo == [totalHits |-> 0, remainingPoints |-> 0, msBeforeNext |-> 0,
           isFirstInDuration |-> FALSE, error |-> FALSE]

\* reset: what the worker's resetRateLimit returned, until its next call
\* (history); counted: the window index checkRateLimit used for the request
\* (history)
RlIdle == [pc |-> "idle", key |-> "k1", now |-> 0, window |-> 0, count |-> 0,
           info |-> NoInfo, reset |-> "none", counted |-> 0]

\* the history of a counter: the value its last INCR returned (0: none yet);
\* it is no longer kept once a reset, a decrement or a store error has
\* touched the key
Untouched == [clean |-> TRUE, last |-> 0]

Touched == [clean |-> FALSE, last |-> 0]

Logged(log, count) == IF log.clean THEN [log EXCEPT !.last = count] ELSE log

\* the options of authRateLimiter that decide the counting of responses
rlOptions == [skipSuccessfulRequests |-> TRUE, skipFailedRequests |-> FALSE]

RlInit ==
    /\ rlCounters = [rk \in RlRedisKeys |-> NoCounter]
    /\ rl = [w \in Workers |-> RlIdle]
    /\ rlLog = [rk \in RlRedisKeys |-> Untouched]
    /\ rlUsed = [calls |-> 0, resets |-> 0, errors |-> 0, hit |-> {}]

\* Math.floor(now / this.options.windowMs)
WindowOf(t) == t \div WindowMs

Ceil(a, b) == (a + b - 1) \div b

ExpireSecondsFloor == WindowMs \div SecMs

\* Math.ceil(this.options.windowMs / 1000)
ExpireSeconds == Ceil(WindowMs, SecMs)

\* the RateLimitInfo checkRateLimit returns for the count it read
InfoOf(count, t) ==
    [totalHits |-> count,
     remainingPoints |-> MaxRequests - count,
     msBeforeNext |-> (WindowOf(t) * WindowMs + WindowMs) - t,
     isFirstInDuration |-> (count = 1),
     error |-> FALSE]

\* the catch block of checkRateLimit: permissive values
\* a result that blocks the request
BlockingInfo ==
    [totalHits |-> 0,
     remainingPoints |-> -1,
     msBeforeNext |-> WindowMs,
     isFirstInDuration |-> TRUE,
     error |-> TRUE]

PermissiveInfo ==
    [totalHits |-> 0,
     remainingPoints |-> MaxRequests,
     msBeforeNext |-> WindowMs,
     isFirstInDuration |-> TRUE,
     error |-> TRUE]

\* INCR / DECR of the store: an absent key counts from 0 and gets no expiry
IncrBy(c, d) ==
    IF c.present THEN [c EXCEPT !.count = c.count + d]
                 ELSE [present |-> TRUE, count |-> d, exp |-> NoExpiry]

\* checkRateLimit has returned info to the middleware
Checked(k, info) == [RlIdle EXCEPT !.pc = "checked", !.key = k, !.info = info]

\* what the store does to a counter and what the history records of it
Touch(rk, c) == rlCounters' = [rlCounters EXCEPT ![rk] = c]

Dirty(rk) == rlLog' = [rlLog EXCEPT ![rk] = Touched]

\* a store call succeeds, or throws (connection lost, client closed)
StoreOutcomes == IF rlUsed.errors < MaxStoreErrors THEN BOOLEAN ELSE {TRUE}

Outcome(ok) == rlUsed' = [rlUsed EXCEPT !.errors = IF ok THEN @ ELSE @ + 1]

\* middleware: keyGenerator(req), then checkRateLimit up to its first await
checkRateLimit_Start(w, k) ==
    /\ rl[w].pc = "idle"
    /\ rlUsed.calls < MaxCalls
    /\ rlUsed' = [rlUsed EXCEPT !.calls = @ + 1]
    /\ rl' = [rl EXCEPT ![w] = [RlIdle EXCEPT !.pc = "incr", !.key = k, !.now = now,
                                              !.window = WindowOf(now)]]
    /\ UNCHANGED <<now, rlCounters, rlLog>>
    /\ UNCHANGED nonRlVars

\* redis.incr(redisKey) is executed by the store, or fails
checkRateLimit_Incr(w) ==
    /\ rl[w].pc = "incr"
    /\ LET rk == <<rl[w].key, rl[w].window>>
           c  == IncrBy(rlCounters[rk], 1)
       IN  \E ok \in StoreOutcomes :
           /\ rlUsed' = [rlUsed EXCEPT !.errors = IF ok THEN @ ELSE @ + 1,
                                       !.hit = IF ok THEN @ \cup {rk} ELSE @]
           /\ IF ok
               THEN /\ Touch(rk, c)
                    /\ rlLog' = [rlLog EXCEPT ![rk] = Logged(rlLog[rk], c.count)]
                    /\ rl' = [rl EXCEPT ![w] =
                                IF c.count = 1
                                  THEN [rl[w] EXCEPT !.pc = "expire", !.count = c.count]
                                  ELSE [Checked(rl[w].key, InfoOf(c.count, rl[w].now))
                                          EXCEPT !.counted = rl[w].window]]
               ELSE /\ Dirty(rk)
                    /\ rl' = [rl EXCEPT ![w] =
                                [Checked(rl[w].key, PermissiveInfo)
                                   EXCEPT !.counted = rl[w].window]]
                    /\ UNCHANGED rlCounters
    /\ UNCHANGED now
    /\ UNCHANGED nonRlVars

\* redis.expire(redisKey, Math.ceil(windowMs / 1000)) is executed, or fails
checkRateLimit_Expire(w) ==
    /\ rl[w].pc = "expire"
    /\ LET rk == <<rl[w].key, rl[w].window>>
       IN  \E ok \in StoreOutcomes :
           /\ Outcome(ok)
           /\ IF ok
               THEN /\ IF rlCounters[rk].present
                         THEN Touch(rk, [rlCounters[rk] EXCEPT
                                           !.exp = now + ExpireSeconds * SecMs])
                         ELSE UNCHANGED rlCounters
                    /\ UNCHANGED rlLog
                    /\ rl' = [rl EXCEPT ![w] =
                                [Checked(rl[w].key, InfoOf(rl[w].count, rl[w].now))
                                   EXCEPT !.counted = rl[w].window]]
               ELSE /\ Dirty(rk)
                    /\ rl' = [rl EXCEPT ![w] =
                                [Checked(rl[w].key, PermissiveInfo)
                                   EXCEPT !.counted = rl[w].window]]
                    /\ UNCHANGED rlCounters
    /\ UNCHANGED now
    /\ UNCHANGED nonRlVars

\* if (rateLimitInfo.remainingPoints < 0): the request is answered with 429
\* and next() is not called
Blocked(info) == info.remainingPoints < 0

\* middleware after checkRateLimit: 429 when remainingPoints < 0; else next(),
\* and the wrapped res.send calls decrementCounter(key) for a skipped response
middleware_Respond(w, statusCode) ==
    /\ rl[w].pc = "checked"
    /\ LET shouldSkip == \/ (statusCode < 400 /\ rlOptions.skipSuccessfulRequests)
                         \/ (statusCode >= 400 /\ rlOptions.skipFailedRequests)
       IN  rl' = [rl EXCEPT ![w] =
                    IF ~Blocked(rl[w].info) /\ shouldSkip
                       /\ WindowOf(now) \in Windows
                      THEN [RlIdle EXCEPT !.pc = "decr", !.key = rl[w].key,
                                          !.window = WindowOf(now),
                                          !.counted = rl[w].counted]
                      ELSE RlIdle]
    /\ UNCHANGED <<now, rlCounters, rlLog, rlUsed>>
    /\ UNCHANGED nonRlVars

\* decrementCounter: redis.decr(redisKey) is executed, or fails
decrementCounter_Decr(w) ==
    /\ rl[w].pc = "decr"
    /\ LET rk == <<rl[w].key, rl[w].window>>
       IN  /\ \E ok \in StoreOutcomes :
                /\ Outcome(ok)
                /\ IF ok THEN Touch(rk, IncrBy(rlCounters[rk], -1))
                         ELSE UNCHANGED rlCounters
           /\ Dirty(rk)
    /\ rl' = [rl EXCEPT ![w] = RlIdle]
    /\ UNCHANGED now
    /\ UNCHANGED nonRlVars

\* resetRateLimit up to its await
resetRateLimit_Start(w, k) ==
    /\ rl[w].pc = "idle"
    /\ rlUsed.resets < MaxResets
    /\ rlUsed' = [rlUsed EXCEPT !.resets = @ + 1]
    /\ rl' = [rl EXCEPT ![w] = [RlIdle EXCEPT !.pc = "del", !.key = k,
                                              !.window = WindowOf(now)]]
    /\ UNCHANGED <<now, rlCounters, rlLog>>
    /\ UNCHANGED nonRlVars

\* a DEL that always answers 1
RlDelReplyOne(c) == 1

\* the answer of DEL: the number of keys it removed
RlDelReply(c) == IF c.present THEN 1 ELSE 0

\* redis.del(redisKey) is executed, or fails; return result > 0, or false
\* from the catch block
resetRateLimit_Del(w) ==
    /\ rl[w].pc = "del"
    /\ LET rk == <<rl[w].key, rl[w].window>>
       IN  /\ \E ok \in StoreOutcomes :
                /\ Outcome(ok)
                /\ IF ok THEN Touch(rk, NoCounter) ELSE UNCHANGED rlCounters
                /\ rl' = [rl EXCEPT ![w] =
                        [RlIdle EXCEPT !.reset =
                            IF ok /\ RlDelReply(rlCounters[rk]) > 0 THEN "true"
                            ELSE "false"]]
           /\ Dirty(rk)
    /\ UNCHANGED now
    /\ UNCHANGED nonRlVars

-----------------------------------------------------------------------------
(***************************************************************************)
(* CacheService: services/cache.ts                                         *)
(*                                                                         *)
(* A string is the sequence of its parts; ":" is a part of its own, so     *)
(* that `${namespace}:${key}` is concatenation and two different pairs can *)
(* build the same store key.  <<>> is the empty string, and stands for a   *)
(* namespace that is not given (both are falsy in buildKey).               *)
(***************************************************************************)
Namespaces == {<<>>, <<"a">>, <<"a", ":", "b">>}

CacheNames == {<<"c">>, <<"b", ":", "c">>}

\* namespace ? `${namespace}:${key}` : key
buildKey(key, namespace) ==
    IF namespace # <<>> THEN namespace \o <<":">> \o key ELSE key

CacheKeys == {buildKey(k, n) : k \in CacheNames, n \in Namespaces}

\* the tenants and the customers, products and invoices whose data the
\* tenant-specific helpers cache
CacheTenants == {"t1", "t2"}

EntityIds == {"e1"}

\* `kpi:${tenantId}`
KpiName(tenantId) == <<"kpi", ":", tenantId>>

\* `customer:${customerId}`
CustomerName(customerId) == <<"customer", ":", customerId>>

\* `product:${productId}`
ProductName(productId) == <<"product", ":", productId>>

\* `invoice:${invoiceId}`
InvoiceName(invoiceId) == <<"invoice", ":", invoiceId>>

\* the store keys of the entries that the helpers write for a tenant: the
\* KPI entry is written without a namespace, the others with the tenant id
\* as the namespace
HelperKeys(tenantId) ==
    {buildKey(KpiName(tenantId), <<>>)}
    \cup {buildKey(CustomerName(id), <<tenantId>>) : id \in EntityIds}
    \cup {buildKey(ProductName(id), <<tenantId>>) : id \in EntityIds}
    \cup {buildKey(InvoiceName(id), <<tenantId>>) : id \in EntityIds}

TenantCacheKeys == UNION {HelperKeys(t) : t \in CacheTenants}

DEFAULT_TTL == 300

KPI_TTL == 60

LONG_TTL == 3600

\* options.ttl of a call; 0 stands for an options object without ttl
TtlOptions == {0, 1}

\* options.ttl || this.DEFAULT_TTL
TtlOf(ttl) == IF ttl # 0 THEN ttl ELSE DEFAULT_TTL

\* the JavaScript values that callers cache; "cyclic" is an object that
\* refers to itself
JsValues == {"objA", "objB", "null", "NaN", "cyclic"}

Throws == "TypeError"

\* a serializer that cuts a cycle instead of throwing
StringifyLossy(v) ==
    CASE v = "objA"   -> "{A}"
      [] v = "objB"   -> "{B}"
      [] v = "null"   -> "null"
      [] v = "NaN"    -> "null"
      [] v = "cyclic" -> "{}"

\* JSON.stringify
Stringify(v) ==
    CASE v = "objA"   -> "{A}"
      [] v = "objB"   -> "{B}"
      [] v = "null"   -> "null"
      [] v = "NaN"    -> "null"
      [] v = "cyclic" -> Throws

\* JSON.parse of a text that JSON.stringify produced, or of the digits of a
\* counter, which parse to a number
Parse(text) ==
    CASE text = "{A}"  -> "objA"
      [] text = "{B}"  -> "objB"
      [] text = "null" -> "null"
      [] OTHER         -> "number"

\* an entry of the store; ns records the namespace argument of the call that
\* wrote it (history)
NoEntry == [present |-> FALSE, text |-> "", exp |-> NoExpiry, ns |-> <<>>]

NoPrev == [op |-> "none", ckey |-> <<>>, result |-> "null", invoked |-> FALSE,
           exp |-> 0]

\* ttl: the number a call was given (ttl, by, or the seconds of expireAt);
\* count: the number a method returns; found: the keys that redis.keys
\* answered; failed: a store command of the call was rejected (history);
\* during: the callers whose counter command was pending when this call
\* began (history)
CacheIdle == [pc |-> "idle", op |-> "none", key |-> <<"c">>, ns |-> <<>>, ttl |-> 0,
              val |-> "null", result |-> "null", from |-> <<>>, invoked |-> FALSE,
              prev |-> NoPrev, count |-> 0, found |-> {}, failed |-> FALSE,
              during |-> {}]

CacheInit ==
    /\ cacheStore = [ck \in CacheKeys \cup TenantCacheKeys |-> NoEntry]
    /\ cache = [w \in Workers |-> CacheIdle]
    /\ cacheUsed = 0

\* a call begins: the previous call of the worker is remembered (history)
CacheCall(w, op, key, ns, ttl, val) ==
    [CacheIdle EXCEPT !.op = op, !.key = key, !.ns = ns, !.ttl = ttl, !.val = val,
                      !.prev = cache[w].prev]

CacheBegin(w) ==
    /\ cache[w].pc = "idle"
    /\ cacheUsed < MaxCacheOps
    /\ cacheUsed' = cacheUsed + 1

\* redis.get(cacheKey) followed by JSON.parse: the value, or null on a miss
GetValue(ck) == IF cacheStore[ck].present THEN Parse(cacheStore[ck].text) ELSE "null"

\* a SETEX that stores the text of null whatever it is given
SetExNull(ck, ttl, text, ns) ==
    cacheStore' = [cacheStore EXCEPT ![ck] = [present |-> TRUE, text |-> "null",
                                              exp |-> now + ttl * SecMs, ns |-> ns]]

\* redis.setEx(cacheKey, ttl, serializedValue)
SetEx(ck, ttl, text, ns) ==
    cacheStore' = [cacheStore EXCEPT ![ck] = [present |-> TRUE, text |-> text,
                                              exp |-> now + ttl * SecMs, ns |-> ns]]

\* CacheService.set
cache_set(w, key, value, ttl, ns) ==
    /\ CacheBegin(w)
    /\ LET ck == buildKey(key, ns)
           text == Stringify(value)
       IN  IF text = Throws
             THEN /\ UNCHANGED cacheStore
                  /\ cache' = [cache EXCEPT ![w] =
                        [CacheCall(w, "set", key, ns, ttl, value) EXCEPT
                            !.pc = "done", !.result = "false"]]
             ELSE /\ SetEx(ck, TtlOf(ttl), text, ns)
                  /\ cache' = [cache EXCEPT ![w] =
                        [CacheCall(w, "set", key, ns, ttl, value) EXCEPT
                            !.pc = "done", !.result = "true"]]
    /\ UNCHANGED now
    /\ UNCHANGED nonCacheVars

\* CacheService.get
cache_get(w, key, ns) ==
    /\ CacheBegin(w)
    /\ LET ck == buildKey(key, ns)
       IN  cache' = [cache EXCEPT ![w] =
                [CacheCall(w, "get", key, ns, 0, "null") EXCEPT
                    !.pc = "done", !.result = GetValue(ck),
                    !.from = cacheStore[ck].ns]]
    /\ UNCHANGED <<now, cacheStore>>
    /\ UNCHANGED nonCacheVars

\* setKPIData: the data with lastUpdated added, under `kpi:${tenantId}`
\* with the TTL of KPIs and no namespace
setKPIData(w, tenantId, kpiData) ==
    /\ tenantId \in CacheTenants
    /\ cache_set(w, KpiName(tenantId), kpiData, KPI_TTL, <<>>)

getKPIData(w, tenantId) ==
    /\ tenantId \in CacheTenants
    /\ cache_get(w, KpiName(tenantId), <<>>)

\* setCustomerData: namespace tenantId, the long TTL
setCustomerData(w, tenantId, customerId, customerData) ==
    /\ tenantId \in CacheTenants
    /\ cache_set(w, CustomerName(customerId), customerData, LONG_TTL, <<tenantId>>)

getCustomerData(w, tenantId, customerId) ==
    /\ tenantId \in CacheTenants
    /\ cache_get(w, CustomerName(customerId), <<tenantId>>)

\* setProductData: namespace tenantId, the long TTL
setProductData(w, tenantId, productId, productData) ==
    /\ tenantId \in CacheTenants
    /\ cache_set(w, ProductName(productId), productData, LONG_TTL, <<tenantId>>)

getProductData(w, tenantId, productId) ==
    /\ tenantId \in CacheTenants
    /\ cache_get(w, ProductName(productId), <<tenantId>>)

\* setInvoiceData: namespace tenantId, the default TTL
setInvoiceData(w, tenantId, invoiceId, invoiceData) ==
    /\ tenantId \in CacheTenants
    /\ cache_set(w, InvoiceName(invoiceId), invoiceData, DEFAULT_TTL, <<tenantId>>)

getInvoiceData(w, tenantId, invoiceId) ==
    /\ tenantId \in CacheTenants
    /\ cache_get(w, InvoiceName(invoiceId), <<tenantId>>)

\* CacheService.delete
cache_delete(w, key, ns) ==
    /\ CacheBegin(w)
    /\ LET ck == buildKey(key, ns)
       IN  /\ cacheStore' = [cacheStore EXCEPT ![ck] = NoEntry]
           /\ cache' = [cache EXCEPT ![w] =
                [CacheCall(w, "delete", key, ns, 0, "null") EXCEPT
                    !.pc = "done",
                    !.result = IF cacheStore[ck].present THEN "true" ELSE "false",
                    !.from = cacheStore[ck].ns]]
    /\ UNCHANGED now
    /\ UNCHANGED nonCacheVars

\* CacheService.exists
cache_exists(w, key, ns) ==
    /\ CacheBegin(w)
    /\ LET ck == buildKey(key, ns)
       IN  cache' = [cache EXCEPT ![w] =
                [CacheCall(w, "exists", key, ns, 0, "null") EXCEPT
                    !.pc = "done",
                    !.result = IF cacheStore[ck].present THEN "true" ELSE "false",
                    !.from = cacheStore[ck].ns]]
    /\ UNCHANGED <<now, cacheStore>>
    /\ UNCHANGED nonCacheVars

\* getOrSet up to the await of this.get
getOrSet_Start(w, key, ttl, ns) ==
    /\ CacheBegin(w)
    /\ cache' = [cache EXCEPT ![w] =
            [CacheCall(w, "getOrSet", key, ns, ttl, "null") EXCEPT !.pc = "get"]]
    /\ UNCHANGED <<now, cacheStore>>
    /\ UNCHANGED nonCacheVars

\* this.get returns: a cached value other than null is returned at once
getOrSet_Get(w) ==
    /\ cache[w].pc = "get"
    /\ LET cached == GetValue(buildKey(cache[w].key, cache[w].ns))
       IN  cache' = [cache EXCEPT ![w] =
                IF cached # "null"
                  THEN [cache[w] EXCEPT !.pc = "done", !.result = cached]
                  ELSE [cache[w] EXCEPT !.pc = "callback"]]
    /\ UNCHANGED <<now, cacheStore, cacheUsed>>
    /\ UNCHANGED nonCacheVars

\* the callback is executed and resolves to v
getOrSet_Callback(w, v) ==
    /\ cache[w].pc = "callback"
    /\ cache' = [cache EXCEPT ![w].pc = "set", ![w].val = v, ![w].invoked = TRUE]
    /\ UNCHANGED <<now, cacheStore, cacheUsed>>
    /\ UNCHANGED nonCacheVars

\* this.set(key, result, options), whose boolean is ignored; return result
getOrSet_Set(w) ==
    /\ cache[w].pc = "set"
    /\ LET ck == buildKey(cache[w].key, cache[w].ns)
           text == Stringify(cache[w].val)
       IN  IF text = Throws
             THEN UNCHANGED cacheStore
             ELSE SetEx(ck, TtlOf(cache[w].ttl), text, cache[w].ns)
    /\ cache' = [cache EXCEPT ![w].pc = "done", ![w].result = cache[w].val]
    /\ UNCHANGED <<now, cacheUsed>>
    /\ UNCHANGED nonCacheVars

(* The methods when the store is unavailable (getRedisClient() throws) or  *)
(* rejects a command: each catch block logs and returns a fixed value.     *)

\* a catch block that lets the error go on to the caller
FailClosed(op) == [result |-> Throws, count |-> 0]

\* what the catch block of a method returns; count is the number returned
\* and the totalKeys of the statistics
FailOpen(op) ==
    CASE op = "get" -> [result |-> "null", count |-> 0]
      [] op \in {"set", "delete", "exists", "setWithExpireAt"} ->
            [result |-> "false", count |-> 0]
      [] op \in {"invalidatePattern", "increment", "decrement"} ->
            [result |-> "number", count |-> 0]
      [] op = "getCacheStats" -> [result |-> "Unknown", count |-> 0]

\* the record of a call that ended in its catch block
Caught(r) ==
    [r EXCEPT !.pc = "done", !.result = FailOpen(r.op).result,
              !.count = FailOpen(r.op).count, !.failed = TRUE]

\* CacheService.set when redis.setEx is rejected
cache_set_Error(w, key, value, ttl, ns) ==
    /\ CacheBegin(w)
    /\ cache' = [cache EXCEPT ![w] = Caught(CacheCall(w, "set", key, ns, ttl, value))]
    /\ UNCHANGED <<now, cacheStore>>
    /\ UNCHANGED nonCacheVars

\* CacheService.get when redis.get is rejected
cache_get_Error(w, key, ns) ==
    /\ CacheBegin(w)
    /\ cache' = [cache EXCEPT ![w] = Caught(CacheCall(w, "get", key, ns, 0, "null"))]
    /\ UNCHANGED <<now, cacheStore>>
    /\ UNCHANGED nonCacheVars

\* CacheService.delete when redis.del is rejected
cache_delete_Error(w, key, ns) ==
    /\ CacheBegin(w)
    /\ cache' = [cache EXCEPT ![w] = Caught(CacheCall(w, "delete", key, ns, 0, "null"))]
    /\ UNCHANGED <<now, cacheStore>>
    /\ UNCHANGED nonCacheVars

\* CacheService.exists when redis.exists is rejected
cache_exists_Error(w, key, ns) ==
    /\ CacheBegin(w)
    /\ cache' = [cache EXCEPT ![w] = Caught(CacheCall(w, "exists", key, ns, 0, "null"))]
    /\ UNCHANGED <<now, cacheStore>>
    /\ UNCHANGED nonCacheVars

\* this.get inside getOrSet caught an error and returned null: a miss
getOrSet_Get_Error(w) ==
    /\ cache[w].pc = "get"
    /\ cache' = [cache EXCEPT ![w].pc = "callback", ![w].failed = TRUE]
    /\ UNCHANGED <<now, cacheStore, cacheUsed>>
    /\ UNCHANGED nonCacheVars

\* this.set inside getOrSet caught an error and returned false, which
\* getOrSet does not look at
getOrSet_Set_Error(w) ==
    /\ cache[w].pc = "set"
    /\ cache' = [cache EXCEPT ![w].pc = "done", ![w].result = cache[w].val,
                              ![w].failed = TRUE]
    /\ UNCHANGED <<now, cacheStore, cacheUsed>>
    /\ UNCHANGED nonCacheVars

(* invalidatePattern.  A pattern is a string like a key; "*" is a part of  *)
(* its own and matches any run of parts, as the glob of redis.keys does.   *)
Patterns == {<<"*">>, <<"c">>, <<"b", ":", "*">>}

\* namespace ? `${namespace}:${pattern}` : pattern
searchPattern(pattern, namespace) ==
    IF namespace # <<>> THEN namespace \o <<":">> \o pattern ELSE pattern

RECURSIVE GlobMatches(_, _)
\* the glob matching of the store's KEYS command
GlobMatches(p, k) ==
    IF p = <<>> THEN k = <<>>
    ELSE IF Head(p) = "*"
           THEN \/ GlobMatches(Tail(p), k)
                \/ k # <<>> /\ GlobMatches(p, Tail(k))
           ELSE /\ k # <<>>
                /\ Head(k) = Head(p)
                /\ GlobMatches(Tail(p), Tail(k))

\* getSessionKey: `${this.SESSION_PREFIX}${sessionId}`
SessionKeyName(s) == <<"session:", ToString(s)>>

\* `rate_limit:${key}:${window}`
RateKeyName(rk) == <<"rate_limit:", rk[1], ":", ToString(rk[2])>>

\* the names of the keys in the store: the services share one store, and
\* the cache keys carry no prefix of their own
StoreKeys ==
    {ck \in DOMAIN cacheStore : cacheStore[ck].present}
    \cup {SessionKeyName(s) : s \in {x \in DOMAIN sessKeys : sessKeys[x].present}}
    \cup {u \in DOMAIN userSets : userSets[u].members # {}}
    \cup {RateKeyName(rk) : rk \in {x \in DOMAIN rlCounters : rlCounters[x].present}}

\* redis.keys(p)
Keys(p) == {k \in StoreKeys : GlobMatches(p, k)}

\* invalidatePattern up to the answer of redis.keys: no key, return 0
invalidatePattern_Keys(w, pattern, ns) ==
    /\ CacheBegin(w)
    /\ LET keys == Keys(searchPattern(pattern, ns))
           r == CacheCall(w, "invalidatePattern", pattern, ns, 0, "null")
       IN  cache' = [cache EXCEPT ![w] =
                IF keys = {}
                  THEN [r EXCEPT !.pc = "done", !.result = "number", !.count = 0]
                  ELSE [r EXCEPT !.pc = "del", !.found = keys]]
    /\ UNCHANGED <<now, cacheStore>>
    /\ UNCHANGED nonCacheVars

\* invalidateTenantCache: invalidatePattern('*', tenantId), up to the answer
\* of redis.keys
invalidateTenantCache(w, tenantId) ==
    /\ tenantId \in CacheTenants
    /\ invalidatePattern_Keys(w, <<"*">>, <<tenantId>>)

\* invalidatePattern when redis.keys is rejected
invalidatePattern_Keys_Error(w, pattern, ns) ==
    /\ CacheBegin(w)
    /\ cache' = [cache EXCEPT ![w] =
            Caught(CacheCall(w, "invalidatePattern", pattern, ns, 0, "null"))]
    /\ UNCHANGED <<now, cacheStore>>
    /\ UNCHANGED nonCacheVars

\* invalidatePattern when redis.del is rejected
invalidatePattern_Del_Error(w) ==
    /\ cache[w].pc = "del"
    /\ cache' = [cache EXCEPT ![w] = Caught(cache[w])]
    /\ UNCHANGED <<now, cacheStore, cacheUsed>>
    /\ UNCHANGED nonCacheVars

(* getCacheStats                                                            *)
\* redis.keys('*').length: the keys of every service in the store
TotalKeys ==
    Cardinality({ck \in DOMAIN cacheStore : cacheStore[ck].present})
    + Cardinality({s \in DOMAIN sessKeys : sessKeys[s].present})
    + Cardinality({u \in DOMAIN userSets : userSets[u].members # {}})
    + Cardinality({rk \in DOMAIN rlCounters : rlCounters[rk].present})

\* getCacheStats up to the answer of redis.keys('*')
getCacheStats_Keys(w) ==
    /\ CacheBegin(w)
    /\ cache' = [cache EXCEPT ![w] =
            [CacheCall(w, "getCacheStats", <<"*">>, <<>>, 0, "null") EXCEPT
                !.pc = "info", !.count = TotalKeys]]
    /\ UNCHANGED <<now, cacheStore>>
    /\ UNCHANGED nonCacheVars

\* redis.info('memory') answers; used is true when the text holds a
\* used_memory_human line
getCacheStats_Info(w, used) ==
    /\ cache[w].pc = "info"
    /\ cache' = [cache EXCEPT ![w].pc = "done",
                              ![w].result = IF used THEN "used_memory_human"
                                            ELSE "Unknown"]
    /\ UNCHANGED <<now, cacheStore, cacheUsed>>
    /\ UNCHANGED nonCacheVars

\* getCacheStats when redis.keys is rejected
getCacheStats_Keys_Error(w) ==
    /\ CacheBegin(w)
    /\ cache' = [cache EXCEPT ![w] =
            Caught(CacheCall(w, "getCacheStats", <<"*">>, <<>>, 0, "null"))]
    /\ UNCHANGED <<now, cacheStore>>
    /\ UNCHANGED nonCacheVars

\* getCacheStats when redis.info is rejected
getCacheStats_Info_Error(w) ==
    /\ cache[w].pc = "info"
    /\ cache' = [cache EXCEPT ![w] = Caught(cache[w])]
    /\ UNCHANGED <<now, cacheStore, cacheUsed>>
    /\ UNCHANGED nonCacheVars

(* Counters.  The store keeps an integer as its decimal digits; INCRBY and  *)
(* DECRBY read an absent key as 0, keep the key's expiry and answer the new *)
(* value; on a text that is no integer they fail.                           *)
Bys == {1, 2}

CounterRange == -(MaxCacheOps * 2)..(MaxCacheOps * 2)

IsInteger(text) == \E n \in CounterRange : ToString(n) = text

\* the integer that the digits of an entry denote
CounterValue(e) ==
    IF e.present THEN CHOOSE n \in CounterRange : ToString(n) = e.text ELSE 0

\* an INCRBY that answers the value it found
IncrReplyStale(e, by) == CounterValue(e)

\* the answer of INCRBY key by
IncrReply(e, by) == CounterValue(e) + by

\* the store executes INCRBY ck by (DECRBY is INCRBY of -by)
CounterIncrBy(ck, by, ns) ==
    cacheStore' = [cacheStore EXCEPT ![ck] =
        [present |-> TRUE, text |-> ToString(CounterValue(@) + by),
         exp |-> IF @.present THEN @.exp ELSE NoExpiry, ns |-> ns]]

\* the callers that wait for the answer of an INCRBY or DECRBY
Pending == {v \in Workers : cache[v].pc \in {"incrBy", "decrBy"}}

\* CacheService.increment up to the await of redis.incrBy
cache_increment_Start(w, key, by, ns) ==
    /\ CacheBegin(w)
    /\ cache' = [cache EXCEPT ![w] =
            [CacheCall(w, "increment", key, ns, by, "null") EXCEPT
                !.pc = "incrBy", !.during = Pending]]
    /\ UNCHANGED <<now, cacheStore>>
    /\ UNCHANGED nonCacheVars

\* CacheService.decrement up to the await of redis.decrBy
cache_decrement_Start(w, key, by, ns) ==
    /\ CacheBegin(w)
    /\ cache' = [cache EXCEPT ![w] =
            [CacheCall(w, "decrement", key, ns, by, "null") EXCEPT
                !.pc = "decrBy", !.during = Pending]]
    /\ UNCHANGED <<now, cacheStore>>
    /\ UNCHANGED nonCacheVars

\* the store executes the INCRBY and the method returns its answer; a key
\* that holds other text makes the command fail and the method return 0
cache_increment_IncrBy(w) ==
    /\ cache[w].pc = "incrBy"
    /\ LET ck == buildKey(cache[w].key, cache[w].ns)
           e == cacheStore[ck]
       IN  IF e.present /\ ~IsInteger(e.text)
             THEN /\ cache' = [cache EXCEPT ![w] = Caught(cache[w])]
                  /\ UNCHANGED cacheStore
             ELSE /\ CounterIncrBy(ck, cache[w].ttl, cache[w].ns)
                  /\ cache' = [cache EXCEPT ![w].pc = "done", ![w].result = "number",
                                            ![w].count = IncrReply(e, cache[w].ttl)]
    /\ UNCHANGED <<now, cacheUsed>>
    /\ UNCHANGED nonCacheVars

\* the store executes the DECRBY and the method returns its answer
cache_decrement_DecrBy(w) ==
    /\ cache[w].pc = "decrBy"
    /\ LET ck == buildKey(cache[w].key, cache[w].ns)
           e == cacheStore[ck]
       IN  IF e.present /\ ~IsInteger(e.text)
             THEN /\ cache' = [cache EXCEPT ![w] = Caught(cache[w])]
                  /\ UNCHANGED cacheStore
             ELSE /\ CounterIncrBy(ck, -cache[w].ttl, cache[w].ns)
                  /\ cache' = [cache EXCEPT ![w].pc = "done", ![w].result = "number",
                                            ![w].count = IncrReply(e, -cache[w].ttl)]
    /\ UNCHANGED <<now, cacheUsed>>
    /\ UNCHANGED nonCacheVars

\* increment when redis.incrBy is rejected
cache_increment_Error(w) ==
    /\ cache[w].pc = "incrBy"
    /\ cache' = [cache EXCEPT ![w] = Caught(cache[w])]
    /\ UNCHANGED <<now, cacheStore, cacheUsed>>
    /\ UNCHANGED nonCacheVars

\* decrement when redis.decrBy is rejected
cache_decrement_Error(w) ==
    /\ cache[w].pc = "decrBy"
    /\ cache' = [cache EXCEPT ![w] = Caught(cache[w])]
    /\ UNCHANGED <<now, cacheStore, cacheUsed>>
    /\ UNCHANGED nonCacheVars

(* setWithExpireAt: SET, which writes the key without an expiry, and then  *)
(* EXPIREAT with the whole seconds of the date.                            *)
\* expireAt.getTime() of a call, in milliseconds
ExpireAts == {1000, 1500}

\* setWithExpireAt up to the await of redis.set: the value is serialized
\* and the store writes the key
setWithExpireAt_Set(w, key, value, at, ns) ==
    /\ CacheBegin(w)
    /\ LET ck == buildKey(key, ns)
           text == Stringify(value)
           r == CacheCall(w, "setWithExpireAt", key, ns, at \div SecMs, value)
       IN  IF text = Throws
             THEN /\ UNCHANGED cacheStore
                  /\ cache' = [cache EXCEPT ![w] =
                        [r EXCEPT !.pc = "done", !.result = "false"]]
             ELSE /\ cacheStore' = [cacheStore EXCEPT ![ck] =
                        [present |-> TRUE, text |-> text, exp |-> NoExpiry,
                         ns |-> ns]]
                  /\ cache' = [cache EXCEPT ![w] = [r EXCEPT !.pc = "expireAt"]]
    /\ UNCHANGED now
    /\ UNCHANGED nonCacheVars

\* redis.expireAt(cacheKey, seconds): a time that has passed deletes the key
setWithExpireAt_ExpireAt(w) ==
    /\ cache[w].pc = "expireAt"
    /\ LET ck == buildKey(cache[w].key, cache[w].ns)
           at == cache[w].ttl * SecMs
       IN  cacheStore' = [cacheStore EXCEPT ![ck] =
                IF ~@.present THEN @
                ELSE IF at <= now THEN NoEntry
                ELSE [@ EXCEPT !.exp = at]]
    /\ cache' = [cache EXCEPT ![w].pc = "done", ![w].result = "true"]
    /\ UNCHANGED <<now, cacheUsed>>
    /\ UNCHANGED nonCacheVars

\* setWithExpireAt when redis.set is rejected
setWithExpireAt_Set_Error(w, key, value, at, ns) ==
    /\ CacheBegin(w)
    /\ Stringify(value) # Throws
    /\ cache' = [cache EXCEPT ![w] =
            Caught(CacheCall(w, "setWithExpireAt", key, ns, at \div SecMs, value))]
    /\ UNCHANGED <<now, cacheStore>>
    /\ UNCHANGED nonCacheVars

\* setWithExpireAt when redis.expireAt is rejected: the key stays as SET
\* wrote it
setWithExpireAt_ExpireAt_Error(w) ==
    /\ cache[w].pc = "expireAt"
    /\ cache' = [cache EXCEPT ![w] = Caught(cache[w])]
    /\ UNCHANGED <<now, cacheStore, cacheUsed>>
    /\ UNCHANGED nonCacheVars

\* the call has returned; what it did is kept as the worker's previous call
cache_Return(w) ==
    /\ cache[w].pc = "done"
    /\ LET ck == buildKey(cache[w].key, cache[w].ns)
       IN  cache' = [cache EXCEPT ![w] =
                [CacheIdle EXCEPT !.prev =
                    [op |-> cache[w].op, ckey |-> ck, result |-> cache[w].result,
                     invoked |-> cache[w].invoked,
                     exp |-> IF ck \in DOMAIN cacheStore /\ cacheStore[ck].present
                               THEN cacheStore[ck].exp
                               ELSE 0]]]
    /\ UNCHANGED <<now, cacheStore, cacheUsed>>
    /\ UNCHANGED nonCacheVars

\* the store drops the entries whose expiry the clock has reached
ExpireCache(t) ==
    [ck \in DOMAIN cacheStore |->
        IF cacheStore[ck].present /\ ~Alive(cacheStore[ck].exp, t)
          THEN NoEntry ELSE cacheStore[ck]]

\* one caller at a time
CacheCallers == {"w1"}

SetValues == {"objA", "objB", "cyclic"}

CallbackValues == {"objA", "null", "NaN"}

\* the value that the calls of the write and invalidation runs store
StoredValues == {"objA"}

\* what the compute functions of two racing getOrSet calls resolve to
RaceValues == {"objA", "objB"}

-----------------------------------------------------------------------------
(***************************************************************************)
(* SessionService: services/session.ts                                     *)
(*                                                                         *)
(* One action per store command: the code between two awaits runs without  *)
(* interruption, and the clock and other calls may move between them.      *)
(* generateSessionId draws 32 random bytes; the model hands out ids that   *)
(* have not been used.                                                     *)
(***************************************************************************)
Users == {"u1", "u2"}

SessionIds == 1..MaxSessions

\* getUserSessionsKey: `${this.USER_SESSIONS_PREFIX}${userId}`
UserSessionsKeyShared(userId) == <<"user_sessions:", "u1">>

UserSessionsKey(userId) == <<"user_sessions:", userId>>

UserSetKeys == {UserSessionsKey(u) : u \in Users}

SESSION_DEFAULT_TTL == 86400

\* updateLastActivity rewrites lastActivity when more than this has passed
ActivityRefreshMs == 60000

\* options.ttl || this.DEFAULT_TTL
SessionTtlOf(ttl) == IF ttl # 0 THEN ttl ELSE SESSION_DEFAULT_TTL

\* the role stands for the fields that the service only passes on (tenantId,
\* email, role)
Roles == {"admin", "user"}

NoData == [userId |-> "none", role |-> "none", lastActivity |-> 0]

\* the fields of a session's data that a caller passes
Passed(data) == [userId |-> data.userId, role |-> data.role]

\* per session id: the data createSession was passed, and whether neither
\* updateSession nor destroySession has been called for the id (history)
NotMade == [passed |-> Passed(NoData), clean |-> FALSE]

\* JSON.stringify of SessionData: the text lists the fields
SessionStringify(data) == <<data.userId, data.role, data.lastActivity>>

\* JSON.parse of a stored text
SessionParseNoRole(text) == [userId |-> text[1], role |-> "none", lastActivity |-> text[3]]

SessionParse(text) == [userId |-> text[1], role |-> text[2], lastActivity |-> text[3]]

NoSession == [present |-> FALSE, text |-> <<>>, exp |-> NoExpiry]

\* a set without members is no key of the store
NoSet == [members |-> {}, exp |-> NoExpiry]

\* the updates argument of updateSession: a partial SessionData, in which
\* NoUpdate marks a field that is not given
NoUpdate == "same"

NoPartial == [userId |-> NoUpdate, role |-> NoUpdate]

Updates ==
    {p \in [userId : Users \cup {NoUpdate}, role : Roles \cup {NoUpdate}] :
        p.userId = NoUpdate \/ p.role = NoUpdate}

SessIdle == [pc |-> "idle", op |-> "none", user |-> "none", sid |-> 0, keep |-> 0,
             ttl |-> 0, data |-> NoData, upd |-> NoPartial, todo |-> <<>>,
             users |-> <<>>, found |-> {}, result |-> {}, dangling |-> {},
             gone |-> {}, count |-> 0, ok |-> FALSE]

SessionInit ==
    /\ sessKeys = [s \in SessionIds |-> NoSession]
    /\ userSets = [k \in UserSetKeys |-> NoSet]
    /\ sess = [w \in Workers |-> SessIdle]
    /\ sessUsed = [ops |-> 0, ids |-> 0, made |-> [s \in SessionIds |-> NotMade]]

\* the orders in which the store may list the members of a set
Orders(S) == {q \in [1..Cardinality(S) -> S] : \A i, j \in DOMAIN q : i # j => q[i] # q[j]}

\* the reply of the TTL command: -2 for an absent key, -1 for a key without
\* expiry, else the remaining time rounded to seconds
TtlReply(e, t) ==
    IF ~e.present THEN -2
    ELSE IF e.exp = NoExpiry THEN -1
    ELSE (e.exp - t + 500) \div SecMs

\* redis.setEx(sessionKey, ttl, JSON.stringify(data))
SessionSetEx(s, ttl, data) ==
    [sessKeys EXCEPT ![s] = [present |-> TRUE, text |-> SessionStringify(data),
                             exp |-> now + ttl * SecMs]]

\* redis.sAdd(userSessionsKey, sessionId): a new set has no expiry
SAdd(u, s) == [userSets EXCEPT ![UserSessionsKey(u)].members = @ \cup {s}]

\* redis.sRem(userSessionsKey, sessionId): the store drops a set that gets empty
SRem(u, s) ==
    [userSets EXCEPT ![UserSessionsKey(u)] = IF @.members \ {s} = {} THEN NoSet
                            ELSE [@ EXCEPT !.members = @ \ {s}]]

\* ...existingData, ...updates, lastActivity: Date.now()
Merge(data, upd) ==
    [userId |-> IF upd.userId = NoUpdate THEN data.userId ELSE upd.userId,
     role |-> IF upd.role = NoUpdate THEN data.role ELSE upd.role,
     lastActivity |-> now]

\* getSession found nothing (or failed)
IsDanglingNever(data) == FALSE

IsDangling(data) == data = NoData

\* the reply of redis.del(sessionKey): the number of keys removed
DelReplyNone(e) == 0

DelReply(e) == IF e.present THEN 1 ELSE 0

\* result > 0 of redis.del
DestroySucceededAlways(reply) == reply >= 0

DestroySucceeded(reply) == reply > 0

\* a call begins
SessionBegin(w) ==
    /\ sess[w].pc = "idle"
    /\ sessUsed.ops < MaxSessionOps

\* sessionId !== currentSessionId fails: destroyOtherUserSessions passes over
\* the session to keep
KeepsNothing(op, s, keep) == FALSE

KeepsSession(op, s, keep) == op = "destroyOthers" /\ s = keep

\* the for loop over sessionIds of getUserSessions, destroyAllUserSessions
\* and destroyOtherUserSessions goes to its next id, or ends
RECURSIVE NextInLoop(_)
NextInLoop(r) ==
    IF r.todo = <<>>
      THEN IF r.op = "destroyAll" THEN [r EXCEPT !.pc = "a_del"]
           ELSE [r EXCEPT !.pc = "done"]
      ELSE IF KeepsSession(r.op, Head(r.todo), r.keep)
             THEN NextInLoop([r EXCEPT !.todo = Tail(@)])
             ELSE [r EXCEPT !.pc = "g_get", !.sid = Head(r.todo), !.todo = Tail(@)]

\* getSession has returned data to the method r.op that called it
AfterGetSession(r, data) ==
    CASE r.op = "get" ->
            [r EXCEPT !.pc = "done", !.data = data]
      [] r.op = "update" ->
            IF data = NoData THEN [r EXCEPT !.pc = "done", !.ok = FALSE]
            ELSE [r EXCEPT !.pc = "u_ttl", !.data = Merge(data, r.upd)]
      [] r.op \in {"destroy", "destroyAll", "destroyOthers"} ->
            IF data # NoData THEN [r EXCEPT !.pc = "d_sRem", !.data = data]
            ELSE [r EXCEPT !.pc = "d_del", !.data = NoData]
      [] r.op = "list" ->
            IF IsDangling(data)
              THEN [r EXCEPT !.pc = "l_sRem", !.dangling = @ \cup {r.sid}]
              ELSE NextInLoop([r EXCEPT !.result = @ \cup {r.sid}])

\* createSession up to the await of setEx
createSession_Start(w, u, role, ttl) ==
    /\ SessionBegin(w)
    /\ sessUsed.ids < MaxSessions
    /\ sessUsed' = [ops |-> sessUsed.ops + 1, ids |-> sessUsed.ids + 1,
                    made |-> [sessUsed.made EXCEPT ![sessUsed.ids + 1] =
                                [passed |-> [userId |-> u, role |-> role],
                                 clean |-> TRUE]]]
    /\ sess' = [sess EXCEPT ![w] =
            [SessIdle EXCEPT !.pc = "c_setEx", !.op = "create", !.user = u,
                             !.sid = sessUsed.ids + 1, !.ttl = SessionTtlOf(ttl),
                             !.data = [userId |-> u, role |-> role,
                                        lastActivity |-> now]]]
    /\ UNCHANGED <<now, sessKeys, userSets>>
    /\ UNCHANGED nonSessVars

\* redis.setEx(sessionKey, ttl, fullSessionData)
createSession_SetEx(w) ==
    /\ sess[w].pc = "c_setEx"
    /\ sessKeys' = SessionSetEx(sess[w].sid, sess[w].ttl, sess[w].data)
    /\ sess' = [sess EXCEPT ![w].pc = "c_sAdd"]
    /\ UNCHANGED <<now, userSets, sessUsed>>
    /\ UNCHANGED nonSessVars

\* redis.sAdd(userSessionsKey, sessionId)
createSession_SAdd(w) ==
    /\ sess[w].pc = "c_sAdd"
    /\ userSets' = SAdd(sess[w].user, sess[w].sid)
    /\ sess' = [sess EXCEPT ![w].pc = "c_expire"]
    /\ UNCHANGED <<now, sessKeys, sessUsed>>
    /\ UNCHANGED nonSessVars

\* redis.expire(userSessionsKey, ttl); return sessionId
createSession_Expire(w) ==
    /\ sess[w].pc = "c_expire"
    /\ userSets' = [userSets EXCEPT ![UserSessionsKey(sess[w].user)] =
            IF @.members = {} THEN @ ELSE [@ EXCEPT !.exp = now + sess[w].ttl * SecMs]]
    /\ sess' = [sess EXCEPT ![w].pc = "done", ![w].ok = TRUE]
    /\ UNCHANGED <<now, sessKeys, sessUsed>>
    /\ UNCHANGED nonSessVars

\* a method whose first store command is the get of getSession
SessionCall(w, op, s, upd) ==
    /\ sessUsed' = [sessUsed EXCEPT !.ops = @ + 1,
                                    !.made[s].clean = @ /\ op = "get"]
    /\ sess' = [sess EXCEPT ![w] =
            [SessIdle EXCEPT !.pc = "g_get", !.op = op, !.sid = s, !.upd = upd]]
    /\ UNCHANGED <<now, sessKeys, userSets>>
    /\ UNCHANGED nonSessVars

getSession_Start(w, s) ==
    /\ SessionBegin(w)
    /\ SessionCall(w, "get", s, NoPartial)

updateSession_Start(w, s, upd) ==
    /\ SessionBegin(w)
    /\ SessionCall(w, "update", s, upd)

destroySession_Start(w, s) ==
    /\ SessionBegin(w)
    /\ SessionCall(w, "destroy", s, NoPartial)

\* getSession: redis.get(sessionKey) is answered; updateLastActivity compares
\* the clock with the stored lastActivity
getSession_Get(w) ==
    /\ sess[w].pc = "g_get"
    /\ LET e == sessKeys[sess[w].sid]
           sessionData == SessionParse(e.text)
       IN  sess' = [sess EXCEPT ![w] =
                IF ~e.present THEN AfterGetSession(sess[w], NoData)
                ELSE IF now - sessionData.lastActivity > ActivityRefreshMs
                       THEN [sess[w] EXCEPT !.pc = "g_ttl",
                                            !.data = [sessionData EXCEPT !.lastActivity = now]]
                       ELSE AfterGetSession(sess[w], sessionData)]
    /\ UNCHANGED <<now, sessKeys, userSets, sessUsed>>
    /\ UNCHANGED nonSessVars

\* updateLastActivity: redis.ttl(sessionKey) is answered
updateLastActivity_Ttl(w) ==
    /\ sess[w].pc = "g_ttl"
    /\ LET ttl == TtlReply(sessKeys[sess[w].sid], now)
       IN  sess' = [sess EXCEPT ![w] =
                IF ttl > 0 THEN [sess[w] EXCEPT !.pc = "g_setEx", !.ttl = ttl]
                ELSE AfterGetSession(sess[w], sess[w].data)]
    /\ UNCHANGED <<now, sessKeys, userSets, sessUsed>>
    /\ UNCHANGED nonSessVars

\* updateLastActivity: redis.setEx(sessionKey, ttl, sessionData)
updateLastActivity_SetEx(w) ==
    /\ sess[w].pc = "g_setEx"
    /\ sessKeys' = SessionSetEx(sess[w].sid, sess[w].ttl, sess[w].data)
    /\ sess' = [sess EXCEPT ![w] = AfterGetSession(sess[w], sess[w].data)]
    /\ UNCHANGED <<now, userSets, sessUsed>>
    /\ UNCHANGED nonSessVars

\* updateSession: redis.ttl(sessionKey) is answered
updateSession_Ttl(w) ==
    /\ sess[w].pc = "u_ttl"
    /\ LET ttl == TtlReply(sessKeys[sess[w].sid], now)
       IN  sess' = [sess EXCEPT ![w] =
                IF ttl > 0 THEN [sess[w] EXCEPT !.pc = "u_setEx", !.ttl = ttl]
                ELSE [sess[w] EXCEPT !.pc = "done", !.ok = FALSE]]
    /\ UNCHANGED <<now, sessKeys, userSets, sessUsed>>
    /\ UNCHANGED nonSessVars

\* updateSession: redis.setEx(sessionKey, ttl, updatedData); return true
updateSession_SetEx(w) ==
    /\ sess[w].pc = "u_setEx"
    /\ sessKeys' = SessionSetEx(sess[w].sid, sess[w].ttl, sess[w].data)
    /\ sess' = [sess EXCEPT ![w].pc = "done", ![w].ok = TRUE]
    /\ UNCHANGED <<now, userSets, sessUsed>>
    /\ UNCHANGED nonSessVars

\* destroySession: redis.sRem(user set of sessionData.userId, sessionId)
destroySession_SRem(w) ==
    /\ sess[w].pc = "d_sRem"
    /\ userSets' = SRem(sess[w].data.userId, sess[w].sid)
    /\ sess' = [sess EXCEPT ![w].pc = "d_del"]
    /\ UNCHANGED <<now, sessKeys, sessUsed>>
    /\ UNCHANGED nonSessVars

\* destroySession: redis.del(sessionKey); return result > 0
destroySession_Del(w) ==
    /\ sess[w].pc = "d_del"
    /\ LET s == sess[w].sid
           reply == DelReply(sessKeys[s])
           success == DestroySucceeded(reply)
           r == [sess[w] EXCEPT !.gone = IF sessKeys[s].present THEN @ \cup {s} ELSE @]
       IN  /\ sessKeys' = [sessKeys EXCEPT ![s] = NoSession]
           /\ sess' = [sess EXCEPT ![w] =
                IF r.op = "destroy" THEN [r EXCEPT !.pc = "done", !.ok = success]
                ELSE NextInLoop([r EXCEPT !.count = IF success THEN @ + 1 ELSE @])]
    /\ sessUsed' = [sessUsed EXCEPT !.made[sess[w].sid].clean = FALSE]
    /\ UNCHANGED <<now, userSets>>
    /\ UNCHANGED nonSessVars

\* a method whose first store command is sMembers of the user's set
SessionSetCall(w, op, u, keep) ==
    /\ sessUsed' = [sessUsed EXCEPT !.ops = @ + 1]
    /\ sess' = [sess EXCEPT ![w] =
            [SessIdle EXCEPT !.pc = "sMembers", !.op = op, !.user = u, !.keep = keep]]
    /\ UNCHANGED <<now, sessKeys, userSets>>
    /\ UNCHANGED nonSessVars

getUserSessions_Start(w, u) ==
    /\ SessionBegin(w)
    /\ SessionSetCall(w, "list", u, 0)

destroyAllUserSessions_Start(w, u) ==
    /\ SessionBegin(w)
    /\ SessionSetCall(w, "destroyAll", u, 0)

destroyOtherUserSessions_Start(w, u, keep) ==
    /\ SessionBegin(w)
    /\ SessionSetCall(w, "destroyOthers", u, keep)

\* redis.sMembers(userSessionsKey) is answered and the loop begins
session_SMembers(w) ==
    /\ sess[w].pc = "sMembers"
    /\ \E q \in Orders(userSets[UserSessionsKey(sess[w].user)].members) :
          sess' = [sess EXCEPT ![w] =
                NextInLoop([sess[w] EXCEPT !.todo = q,
                                           !.found = userSets[UserSessionsKey(sess[w].user)].members])]
    /\ UNCHANGED <<now, sessKeys, userSets, sessUsed>>
    /\ UNCHANGED nonSessVars

\* getUserSessions: redis.sRem(userSessionsKey, sessionId) of an id without
\* session
getUserSessions_SRem(w) ==
    /\ sess[w].pc = "l_sRem"
    /\ userSets' = SRem(sess[w].user, sess[w].sid)
    /\ sess' = [sess EXCEPT ![w] = NextInLoop(sess[w])]
    /\ UNCHANGED <<now, sessKeys, sessUsed>>
    /\ UNCHANGED nonSessVars

\* destroyAllUserSessions: redis.del(userSessionsKey); return destroyedCount
destroyAllUserSessions_Del(w) ==
    /\ sess[w].pc = "a_del"
    /\ userSets' = [userSets EXCEPT ![UserSessionsKey(sess[w].user)] = NoSet]
    /\ sess' = [sess EXCEPT ![w].pc = "done"]
    /\ UNCHANGED <<now, sessKeys, sessUsed>>
    /\ UNCHANGED nonSessVars

\* extendSession up to the await of expire
extendSession_Start(w, s, ttl) ==
    /\ SessionBegin(w)
    /\ sessUsed' = [sessUsed EXCEPT !.ops = @ + 1]
    /\ sess' = [sess EXCEPT ![w] =
            [SessIdle EXCEPT !.pc = "e_expire", !.op = "extend", !.sid = s,
                             !.ttl = SessionTtlOf(ttl)]]
    /\ UNCHANGED <<now, sessKeys, userSets>>
    /\ UNCHANGED nonSessVars

\* the store's EXPIRE on a key: an absent key stays absent
ExpireKeepsExpiry(e, ttl) == e

Expire(e, ttl) == IF e.present THEN [e EXCEPT !.exp = now + ttl * SecMs] ELSE e

\* redis.expire(sessionKey, extendTtl); return result
extendSession_Expire(w) ==
    /\ sess[w].pc = "e_expire"
    /\ LET s == sess[w].sid
       IN  /\ sessKeys' = [sessKeys EXCEPT ![s] = Expire(@, sess[w].ttl)]
           /\ sess' = [sess EXCEPT ![w].pc = "done", ![w].ok = sessKeys[s].present]
    /\ UNCHANGED <<now, userSets, sessUsed>>
    /\ UNCHANGED nonSessVars

\* cleanupExpiredSessions: the for loop over userSessionKeys goes on
NextUserSet(r) ==
    IF r.users = <<>> THEN [r EXCEPT !.pc = "done"]
    ELSE [r EXCEPT !.pc = "k_sMembers", !.user = Head(r.users), !.users = Tail(@)]

\* cleanupExpiredSessions: the for loop over sessionIds goes on
NextCleanupId(r) ==
    IF r.todo = <<>> THEN [r EXCEPT !.pc = "k_sCard"]
    ELSE [r EXCEPT !.pc = "k_exists", !.sid = Head(r.todo), !.todo = Tail(@)]

\* cleanupExpiredSessions up to the await of keys
cleanupExpiredSessions_Start(w) ==
    /\ SessionBegin(w)
    /\ sessUsed' = [sessUsed EXCEPT !.ops = @ + 1]
    /\ sess' = [sess EXCEPT ![w] = [SessIdle EXCEPT !.pc = "k_keys", !.op = "cleanup"]]
    /\ UNCHANGED <<now, sessKeys, userSets>>
    /\ UNCHANGED nonSessVars

\* redis.keys('user_sessions:*') is answered
cleanupExpiredSessions_Keys(w) ==
    /\ sess[w].pc = "k_keys"
    /\ \E q \in Orders({u \in Users : userSets[UserSessionsKey(u)].members # {}}) :
          sess' = [sess EXCEPT ![w] = NextUserSet([sess[w] EXCEPT !.users = q])]
    /\ UNCHANGED <<now, sessKeys, userSets, sessUsed>>
    /\ UNCHANGED nonSessVars

\* redis.sMembers(userSessionKey) is answered
cleanupExpiredSessions_SMembers(w) ==
    /\ sess[w].pc = "k_sMembers"
    /\ \E q \in Orders(userSets[UserSessionsKey(sess[w].user)].members) :
          sess' = [sess EXCEPT ![w] = NextCleanupId([sess[w] EXCEPT !.todo = q])]
    /\ UNCHANGED <<now, sessKeys, userSets, sessUsed>>
    /\ UNCHANGED nonSessVars

\* redis.exists(sessionKey) is answered
cleanupExpiredSessions_Exists(w) ==
    /\ sess[w].pc = "k_exists"
    /\ sess' = [sess EXCEPT ![w] =
            IF sessKeys[sess[w].sid].present THEN NextCleanupId(sess[w])
            ELSE [sess[w] EXCEPT !.pc = "k_sRem"]]
    /\ UNCHANGED <<now, sessKeys, userSets, sessUsed>>
    /\ UNCHANGED nonSessVars

\* redis.sRem(userSessionKey, sessionId); cleanedCount++
cleanupExpiredSessions_SRem(w) ==
    /\ sess[w].pc = "k_sRem"
    /\ userSets' = SRem(sess[w].user, sess[w].sid)
    /\ sess' = [sess EXCEPT ![w] = NextCleanupId([sess[w] EXCEPT !.count = @ + 1])]
    /\ UNCHANGED <<now, sessKeys, sessUsed>>
    /\ UNCHANGED nonSessVars

\* redis.sCard(userSessionKey) is answered
cleanupExpiredSessions_SCard(w) ==
    /\ sess[w].pc = "k_sCard"
    /\ sess' = [sess EXCEPT ![w] =
            IF Cardinality(userSets[UserSessionsKey(sess[w].user)].members) = 0
              THEN [sess[w] EXCEPT !.pc = "k_del"]
              ELSE NextUserSet(sess[w])]
    /\ UNCHANGED <<now, sessKeys, userSets, sessUsed>>
    /\ UNCHANGED nonSessVars

\* redis.del(userSessionKey) of a set without members
cleanupExpiredSessions_Del(w) ==
    /\ sess[w].pc = "k_del"
    /\ userSets' = [userSets EXCEPT ![UserSessionsKey(sess[w].user)] = NoSet]
    /\ sess' = [sess EXCEPT ![w] = NextUserSet(sess[w])]
    /\ UNCHANGED <<now, sessKeys, sessUsed>>
    /\ UNCHANGED nonSessVars

\* the method has returned
session_Return(w) ==
    /\ sess[w].pc = "done"
    /\ sess' = [sess EXCEPT ![w] = SessIdle]
    /\ UNCHANGED <<now, sessKeys, userSets, sessUsed>>
    /\ UNCHANGED nonSessVars

\* the store drops the session keys and the sets whose expiry the clock has
\* reached
ExpireSessions(t) ==
    [s \in SessionIds |->
        IF sessKeys[s].present /\ ~Alive(sessKeys[s].exp, t)
          THEN NoSession ELSE sessKeys[s]]

ExpireUserSets(t) ==
    [k \in UserSetKeys |-> IF ~Alive(userSets[k].exp, t) THEN NoSet ELSE userSets[k]]

\* one caller at a time
SessionCallers == {"w1"}

\* the calls where the session sets are looked at pass one role and update
\* the userId only
SetRoles == {"user"}

SetUpdates == {p \in Updates : p.role = NoUpdate}

\* the store drops the counters whose expiry the clock has reached
ExpireCounters(t) ==
    [rk \in RlRedisKeys |->
        IF rlCounters[rk].present /\ ~Alive(rlCounters[rk].exp, t)
          THEN NoCounter ELSE rlCounters[rk]]

\* the clock reaches t
Elapse(t) ==
    /\ now' = t
    /\ rlCounters' = ExpireCounters(t)
    /\ cacheStore' = ExpireCache(t)
    /\ sessKeys' = ExpireSessions(t)
    /\ userSets' = ExpireUserSets(t)
    /\ UNCHANGED <<rl, rlLog, rlUsed, cache, cacheUsed, sess, sessUsed>>
    /\ UNCHANGED <<regVars, tenantVars>>

\* time passes
Tick ==
    /\ now + TickMs <= MaxNow
    /\ Elapse(now + TickMs)

\* a minute passes, once
LongIdle ==
    /\ now < ActivityRefreshMs
    /\ Elapse(now + ActivityRefreshMs)

\* redis.del(keys): the keys still there are deleted, whichever service
\* wrote them, and their number is returned
invalidatePattern_Del(w) ==
    /\ cache[w].pc = "del"
    /\ LET there == cache[w].found \cap StoreKeys
       IN  /\ cacheStore' = [ck \in DOMAIN cacheStore |->
                                IF ck \in there THEN NoEntry ELSE cacheStore[ck]]
           /\ sessKeys' = [s \in DOMAIN sessKeys |->
                                IF SessionKeyName(s) \in there THEN NoSession
                                ELSE sessKeys[s]]
           /\ userSets' = [u \in DOMAIN userSets |->
                                IF u \in there THEN NoSet ELSE userSets[u]]
           /\ rlCounters' = [rk \in DOMAIN rlCounters |->
                                IF RateKeyName(rk) \in there THEN NoCounter
                                ELSE rlCounters[rk]]
           /\ cache' = [cache EXCEPT ![w].pc = "done", ![w].result = "number",
                                     ![w].count = Cardinality(there)]
    /\ UNCHANGED <<now, cacheUsed, rl, rlLog, rlUsed, sess, sessUsed>>
    /\ UNCHANGED <<regVars, tenantVars>>

\* getRateLimitStatus(key) up to its await: the window index is taken from
\* the clock at the call
getRateLimitStatus_Start(w, k) ==
    /\ rl[w].pc = "idle"
    /\ rlUsed.calls < MaxCalls
    /\ rlUsed' = [rlUsed EXCEPT !.calls = @ + 1]
    /\ rl' = [rl EXCEPT ![w] = [RlIdle EXCEPT !.pc = "get", !.key = k, !.now = now,
                                              !.window = WindowOf(now)]]
    /\ UNCHANGED <<now, rlCounters, rlLog>>
    /\ UNCHANGED nonRlVars

\* a read that creates the key it looks at
AfterGetCreates(c) == IncrBy(c, 0)

\* what GET leaves of the key it reads
AfterGet(c) == c

\* currentCount ? parseInt(currentCount) : 0
StatusCount(c) == IF c.present THEN c.count ELSE 0

\* the result of getRateLimitStatus for a count read by a call made at time t
StatusInfoOf(count, t) ==
    [totalHits |-> count,
     remainingPoints |-> MaxRequests - count,
     msBeforeNext |-> (WindowOf(t) * WindowMs + WindowMs) - t,
     isFirstInDuration |-> (count = 0),
     error |-> FALSE]

\* redis.get(redisKey) is executed, or fails (the catch block returns the
\* permissive values)
getRateLimitStatus_Get(w) ==
    /\ rl[w].pc = "get"
    /\ LET rk == <<rl[w].key, rl[w].window>>
       IN  \E ok \in StoreOutcomes :
           /\ Outcome(ok)
           /\ IF ok
               THEN /\ Touch(rk, AfterGet(rlCounters[rk]))
                    /\ rl' = [rl EXCEPT ![w] =
                                [rl[w] EXCEPT !.pc = "status",
                                              !.info = StatusInfoOf(StatusCount(rlCounters[rk]),
                                                                    rl[w].now)]]
               ELSE /\ UNCHANGED rlCounters
                    /\ rl' = [rl EXCEPT ![w] =
                                [rl[w] EXCEPT !.pc = "status", !.info = PermissiveInfo]]
    /\ UNCHANGED <<now, rlLog>>
    /\ UNCHANGED nonRlVars

\* the caller of getRateLimitStatus has its result
getRateLimitStatus_Return(w) ==
    /\ rl[w].pc = "status"
    /\ rl' = [rl EXCEPT ![w] = RlIdle]
    /\ UNCHANGED <<now, rlCounters, rlLog, rlUsed>>
    /\ UNCHANGED nonRlVars


NextRateLimit ==
    \/ \E w \in Workers, k \in RlHotKeys : checkRateLimit_Start(w, k)
    \/ \E w \in Workers : checkRateLimit_Incr(w)
    \/ \E w \in Workers : checkRateLimit_Expire(w)
    \/ \E w \in Workers, statusCode \in {200, 401} : middleware_Respond(w, statusCode)
    \/ \E w \in Workers : decrementCounter_Decr(w)
    \/ \E w \in Workers, k \in RlHotKeys : resetRateLimit_Start(w, k)
    \/ \E w \in Workers : resetRateLimit_Del(w)
    \/ Tick

\* the callers of checkRateLimit and getRateLimitStatus, and the caller of
\* resetRateLimit, in the specification with resets and status reads
RlCallers == {"w1"}

RlAdmins == {"w2"}

\* the limiter used on two keys by requests that are counted (status 401
\* with skipFailedRequests off), with resets and status reads
NextRateAdmin ==
    \/ \E w \in RlCallers, k \in RlKeys : checkRateLimit_Start(w, k)
    \/ \E w \in RlCallers : checkRateLimit_Incr(w)
    \/ \E w \in RlCallers : checkRateLimit_Expire(w)
    \/ \E w \in RlCallers : middleware_Respond(w, 401)
    \/ \E w \in RlAdmins, k \in RlKeys : resetRateLimit_Start(w, k)
    \/ \E w \in RlAdmins : resetRateLimit_Del(w)
    \/ \E w \in RlCallers, k \in RlKeys : getRateLimitStatus_Start(w, k)
    \/ \E w \in RlCallers : getRateLimitStatus_Get(w)
    \/ \E w \in RlCallers : getRateLimitStatus_Return(w)
    \/ Tick


NextCache ==
    \/ \E w \in CacheCallers, k \in CacheNames, v \in SetValues, t \in TtlOptions,
          n \in Namespaces : cache_set(w, k, v, t, n)
    \/ \E w \in CacheCallers, k \in CacheNames, n \in Namespaces : cache_get(w, k, n)
    \/ \E w \in CacheCallers, k \in CacheNames, n \in Namespaces : cache_delete(w, k, n)
    \/ \E w \in CacheCallers, k \in CacheNames, n \in Namespaces : cache_exists(w, k, n)
    \/ \E w \in CacheCallers, k \in CacheNames, t \in TtlOptions, n \in Namespaces :
          getOrSet_Start(w, k, t, n)
    \/ \E w \in CacheCallers : getOrSet_Get(w)
    \/ \E w \in CacheCallers, v \in CallbackValues : getOrSet_Callback(w, v)
    \/ \E w \in CacheCallers : getOrSet_Set(w)
    \/ \E w \in CacheCallers : cache_Return(w)
    \/ Tick

\* the cache methods with a store that may reject any command
NextCacheFault ==
    \/ \E w \in CacheCallers, k \in CacheNames, v \in SetValues, t \in TtlOptions,
          n \in Namespaces : cache_set(w, k, v, t, n)
    \/ \E w \in CacheCallers, k \in CacheNames, v \in SetValues, t \in TtlOptions,
          n \in Namespaces : cache_set_Error(w, k, v, t, n)
    \/ \E w \in CacheCallers, k \in CacheNames, n \in Namespaces : cache_get_Error(w, k, n)
    \/ \E w \in CacheCallers, k \in CacheNames, n \in Namespaces :
          cache_delete_Error(w, k, n)
    \/ \E w \in CacheCallers, k \in CacheNames, n \in Namespaces :
          cache_exists_Error(w, k, n)
    \/ \E w \in CacheCallers, k \in CacheNames, t \in TtlOptions, n \in Namespaces :
          getOrSet_Start(w, k, t, n)
    \/ \E w \in CacheCallers : getOrSet_Get(w)
    \/ \E w \in CacheCallers : getOrSet_Get_Error(w)
    \/ \E w \in CacheCallers, v \in CallbackValues : getOrSet_Callback(w, v)
    \/ \E w \in CacheCallers : getOrSet_Set(w)
    \/ \E w \in CacheCallers : getOrSet_Set_Error(w)
    \/ \E w \in CacheCallers, p \in Patterns, n \in Namespaces :
          invalidatePattern_Keys(w, p, n)
    \/ \E w \in CacheCallers, p \in Patterns, n \in Namespaces :
          invalidatePattern_Keys_Error(w, p, n)
    \/ \E w \in CacheCallers : invalidatePattern_Del(w)
    \/ \E w \in CacheCallers : invalidatePattern_Del_Error(w)
    \/ \E w \in CacheCallers, k \in CacheNames, by \in Bys, n \in Namespaces :
          cache_increment_Start(w, k, by, n)
    \/ \E w \in CacheCallers : cache_increment_IncrBy(w)
    \/ \E w \in CacheCallers : cache_increment_Error(w)
    \/ \E w \in CacheCallers, k \in CacheNames, by \in Bys, n \in Namespaces :
          cache_decrement_Start(w, k, by, n)
    \/ \E w \in CacheCallers : cache_decrement_DecrBy(w)
    \/ \E w \in CacheCallers : cache_decrement_Error(w)
    \/ \E w \in CacheCallers : getCacheStats_Keys(w)
    \/ \E w \in CacheCallers : getCacheStats_Keys_Error(w)
    \/ \E w \in CacheCallers, used \in BOOLEAN : getCacheStats_Info(w, used)
    \/ \E w \in CacheCallers : getCacheStats_Info_Error(w)
    \/ \E w \in CacheCallers : cache_Return(w)

\* getOrSet called by concurrent requests
NextCacheRace ==
    \/ \E w \in Workers, k \in CacheNames, t \in TtlOptions, n \in Namespaces :
          getOrSet_Start(w, k, t, n)
    \/ \E w \in Workers : getOrSet_Get(w)
    \/ \E w \in Workers, v \in RaceValues : getOrSet_Callback(w, v)
    \/ \E w \in Workers : getOrSet_Set(w)
    \/ \E w \in Workers : cache_Return(w)
    \/ Tick

\* writes with an expiry, reads and pattern invalidation, one caller at a
\* time
NextCacheWrites ==
    \/ \E w \in CacheCallers, k \in CacheNames, v \in StoredValues, t \in TtlOptions,
          n \in Namespaces : cache_set(w, k, v, t, n)
    \/ \E w \in CacheCallers, k \in CacheNames, n \in Namespaces : cache_get(w, k, n)
    \/ \E w \in CacheCallers, p \in Patterns, n \in Namespaces :
          invalidatePattern_Keys(w, p, n)
    \/ \E w \in CacheCallers : invalidatePattern_Del(w)
    \/ \E w \in CacheCallers, k \in CacheNames, v \in StoredValues, at \in ExpireAts,
          n \in Namespaces : setWithExpireAt_Set(w, k, v, at, n)
    \/ \E w \in CacheCallers : setWithExpireAt_ExpireAt(w)
    \/ \E w \in CacheCallers, k \in CacheNames, v \in StoredValues, at \in ExpireAts,
          n \in Namespaces : setWithExpireAt_Set_Error(w, k, v, at, n)
    \/ \E w \in CacheCallers : setWithExpireAt_ExpireAt_Error(w)
    \/ \E w \in CacheCallers : cache_Return(w)
    \/ Tick

\* the counters, called by concurrent requests
NextCacheCounter ==
    \/ \E w \in Workers, k \in CacheNames, by \in Bys, n \in Namespaces :
          cache_increment_Start(w, k, by, n)
    \/ \E w \in Workers : cache_increment_IncrBy(w)
    \/ \E w \in Workers, k \in CacheNames, by \in Bys, n \in Namespaces :
          cache_decrement_Start(w, k, by, n)
    \/ \E w \in Workers : cache_decrement_DecrBy(w)
    \/ \E w \in Workers : cache_Return(w)

NextSession ==
    \/ \E w \in SessionCallers, u \in Users, role \in SetRoles, t \in TtlOptions :
          createSession_Start(w, u, role, t)
    \/ \E w \in SessionCallers : createSession_SetEx(w)
    \/ \E w \in SessionCallers : createSession_SAdd(w)
    \/ \E w \in SessionCallers : createSession_Expire(w)
    \/ \E w \in SessionCallers, s \in SessionIds : getSession_Start(w, s)
    \/ \E w \in SessionCallers, s \in SessionIds, upd \in SetUpdates :
          updateSession_Start(w, s, upd)
    \/ \E w \in SessionCallers, s \in SessionIds : destroySession_Start(w, s)
    \/ \E w \in SessionCallers : getSession_Get(w)
    \/ \E w \in SessionCallers : updateLastActivity_Ttl(w)
    \/ \E w \in SessionCallers : updateLastActivity_SetEx(w)
    \/ \E w \in SessionCallers : updateSession_Ttl(w)
    \/ \E w \in SessionCallers : updateSession_SetEx(w)
    \/ \E w \in SessionCallers : destroySession_SRem(w)
    \/ \E w \in SessionCallers : destroySession_Del(w)
    \/ \E w \in SessionCallers, u \in Users : getUserSessions_Start(w, u)
    \/ \E w \in SessionCallers, u \in Users : destroyAllUserSessions_Start(w, u)
    \/ \E w \in SessionCallers, u \in Users, keep \in SessionIds :
          destroyOtherUserSessions_Start(w, u, keep)
    \/ \E w \in SessionCallers : session_SMembers(w)
    \/ \E w \in SessionCallers : getUserSessions_SRem(w)
    \/ \E w \in SessionCallers : destroyAllUserSessions_Del(w)
    \/ \E w \in SessionCallers, s \in SessionIds, t \in TtlOptions :
          extendSession_Start(w, s, t)
    \/ \E w \in SessionCallers : extendSession_Expire(w)
    \/ \E w \in SessionCallers : cleanupExpiredSessions_Start(w)
    \/ \E w \in SessionCallers : cleanupExpiredSessions_Keys(w)
    \/ \E w \in SessionCallers : cleanupExpiredSessions_SMembers(w)
    \/ \E w \in SessionCallers : cleanupExpiredSessions_Exists(w)
    \/ \E w \in SessionCallers : cleanupExpiredSessions_SRem(w)
    \/ \E w \in SessionCallers : cleanupExpiredSessions_SCard(w)
    \/ \E w \in SessionCallers : cleanupExpiredSessions_Del(w)
    \/ \E w \in SessionCallers : session_Return(w)
    \/ Tick
    \/ LongIdle

\* the methods that work on one session key, with every role and partial,
\* called for the first session of the run
DataSessionIds == {1}

NextSessionData ==
    \/ \E w \in SessionCallers, u \in Users, role \in Roles, t \in TtlOptions :
          /\ sessUsed.ids + 1 \in DataSessionIds
          /\ createSession_Start(w, u, role, t)
    \/ \E w \in SessionCallers : createSession_SetEx(w)
    \/ \E w \in SessionCallers : createSession_SAdd(w)
    \/ \E w \in SessionCallers : createSession_Expire(w)
    \/ \E w \in SessionCallers, s \in DataSessionIds : getSession_Start(w, s)
    \/ \E w \in SessionCallers, s \in DataSessionIds, upd \in Updates :
          updateSession_Start(w, s, upd)
    \/ \E w \in SessionCallers, s \in DataSessionIds : destroySession_Start(w, s)
    \/ \E w \in SessionCallers : getSession_Get(w)
    \/ \E w \in SessionCallers : updateLastActivity_Ttl(w)
    \/ \E w \in SessionCallers : updateLastActivity_SetEx(w)
    \/ \E w \in SessionCallers : updateSession_Ttl(w)
    \/ \E w \in SessionCallers : updateSession_SetEx(w)
    \/ \E w \in SessionCallers : destroySession_SRem(w)
    \/ \E w \in SessionCallers : destroySession_Del(w)
    \/ \E w \in SessionCallers, s \in DataSessionIds, t \in TtlOptions :
          extendSession_Start(w, s, t)
    \/ \E w \in SessionCallers : extendSession_Expire(w)
    \/ \E w \in SessionCallers : session_Return(w)
    \/ Tick
    \/ LongIdle

\* createSession when the store rejects redis.setEx: the catch block logs
\* and throws 'Session creation failed'; nothing was written
createSession_SetEx_Error(w) ==
    /\ sess[w].pc = "c_setEx"
    /\ sess' = [sess EXCEPT ![w].pc = "done", ![w].ok = FALSE]
    /\ UNCHANGED <<now, sessKeys, userSets, sessUsed>>
    /\ UNCHANGED nonSessVars

\* the store rejects redis.sAdd, after SETEX was executed
createSession_SAdd_Error(w) ==
    /\ sess[w].pc = "c_sAdd"
    /\ sess' = [sess EXCEPT ![w].pc = "done", ![w].ok = FALSE]
    /\ UNCHANGED <<now, sessKeys, userSets, sessUsed>>
    /\ UNCHANGED nonSessVars

\* the store rejects redis.expire, after SETEX and SADD were executed
createSession_Expire_Error(w) ==
    /\ sess[w].pc = "c_expire"
    /\ sess' = [sess EXCEPT ![w].pc = "done", ![w].ok = FALSE]
    /\ UNCHANGED <<now, sessKeys, userSets, sessUsed>>
    /\ UNCHANGED nonSessVars

\* createSession with a store that may reject any of its commands
NextSessionFault ==
    \/ \E w \in SessionCallers, u \in Users, role \in Roles, t \in TtlOptions :
          createSession_Start(w, u, role, t)
    \/ \E w \in SessionCallers : createSession_SetEx(w)
    \/ \E w \in SessionCallers : createSession_SAdd(w)
    \/ \E w \in SessionCallers : createSession_Expire(w)
    \/ \E w \in SessionCallers : createSession_SetEx_Error(w)
    \/ \E w \in SessionCallers : createSession_SAdd_Error(w)
    \/ \E w \in SessionCallers : createSession_Expire_Error(w)
    \/ \E w \in SessionCallers : session_Return(w)
    \/ Tick

\* the tenant-specific helpers and invalidateTenantCache, one caller
NextTenantCache ==
    \/ \E w \in CacheCallers, t \in CacheTenants, v \in StoredValues :
          setKPIData(w, t, v)
    \/ \E w \in CacheCallers, t \in CacheTenants, id \in EntityIds, v \in StoredValues :
          setCustomerData(w, t, id, v)
    \/ \E w \in CacheCallers, t \in CacheTenants, id \in EntityIds, v \in StoredValues :
          setProductData(w, t, id, v)
    \/ \E w \in CacheCallers, t \in CacheTenants, id \in EntityIds, v \in StoredValues :
          setInvoiceData(w, t, id, v)
    \/ \E w \in CacheCallers, t \in CacheTenants : getKPIData(w, t)
    \/ \E w \in CacheCallers, t \in CacheTenants, id \in EntityIds :
          getCustomerData(w, t, id)
    \/ \E w \in CacheCallers, t \in CacheTenants, id \in EntityIds :
          getProductData(w, t, id)
    \/ \E w \in CacheCallers, t \in CacheTenants, id \in EntityIds :
          getInvoiceData(w, t, id)
    \/ \E w \in CacheCallers, t \in CacheTenants : invalidateTenantCache(w, t)
    \/ \E w \in CacheCallers : invalidatePattern_Del(w)
    \/ \E w \in CacheCallers : cache_Return(w)
    \/ Tick

\* the three services on the one store: sessions are created, requests are
\* counted, and the cache is written and invalidated by pattern
NextSharedStore ==
    \/ \E w \in SessionCallers, u \in Users, t \in TtlOptions :
          /\ sessUsed.ids + 1 \in DataSessionIds
          /\ createSession_Start(w, u, "user", t)
    \/ \E w \in SessionCallers : createSession_SetEx(w)
    \/ \E w \in SessionCallers : createSession_SAdd(w)
    \/ \E w \in SessionCallers : createSession_Expire(w)
    \/ \E w \in SessionCallers : session_Return(w)
    \/ \E w \in RlCallers, k \in RlHotKeys : checkRateLimit_Start(w, k)
    \/ \E w \in RlCallers : checkRateLimit_Incr(w)
    \/ \E w \in RlCallers : checkRateLimit_Expire(w)
    \/ \E w \in RlCallers : middleware_Respond(w, 401)
    \/ \E w \in CacheCallers, k \in CacheNames, v \in StoredValues, t \in TtlOptions,
          n \in Namespaces : cache_set(w, k, v, t, n)
    \/ \E w \in CacheCallers, p \in Patterns, n \in Namespaces :
          invalidatePattern_Keys(w, p, n)
    \/ \E w \in CacheCallers : invalidatePattern_Del(w)
    \/ \E w \in CacheCallers : cache_Return(w)

\* createSession has returned the id to its caller
Issued(s) ==
    /\ sessUsed.ids >= s
    /\ \A w \in Workers : ~(sess[w].op = "create" /\ sess[w].sid = s)

\* two concurrent callers of getSession, updateSession and destroySession
\* on one session, once createSession has returned its id
NextSessionRace ==
    \/ \E w \in Workers, u \in Users, role \in SetRoles, t \in TtlOptions :
          /\ sessUsed.ids + 1 \in DataSessionIds
          /\ createSession_Start(w, u, role, t)
    \/ \E w \in Workers : createSession_SetEx(w)
    \/ \E w \in Workers : createSession_SAdd(w)
    \/ \E w \in Workers : createSession_Expire(w)
    \/ \E w \in Workers, s \in DataSessionIds :
          /\ Issued(s)
          /\ getSession_Start(w, s)
    \/ \E w \in Workers, s \in DataSessionIds, upd \in SetUpdates :
          /\ Issued(s)
          /\ updateSession_Start(w, s, upd)
    \/ \E w \in Workers, s \in DataSessionIds :
          /\ Issued(s)
          /\ destroySession_Start(w, s)
    \/ \E w \in Workers : getSession_Get(w)
    \/ \E w \in Workers : updateLastActivity_Ttl(w)
    \/ \E w \in Workers : updateLastActivity_SetEx(w)
    \/ \E w \in Workers : updateSession_Ttl(w)
    \/ \E w \in Workers : updateSession_SetEx(w)
    \/ \E w \in Workers : destroySession_SRem(w)
    \/ \E w \in Workers : destroySession_Del(w)
    \/ \E w \in Workers : session_Return(w)
    \/ Tick
    \/ LongIdle

-----------------------------------------------------------------------------
(***************************************************************************)
(* Tenant middleware: middleware/tenant.ts                                 *)
(*                                                                         *)
(* A host is the sequence of its labels (host.split('.')), <<>> when the   *)
(* request has no Host header; "" is a header that is not sent and the     *)
(* identifier that was not found (both are falsy in the code).             *)
(***************************************************************************)
Requests == {"q1"}

\* tenant.subdomain in the platform database
SubdomainOf == [t \in Tenants |->
                  CASE t = "t1" -> "shop1"
                    [] t = "t2" -> "shop2"
                    [] OTHER    -> "shop3"]

Hosts == {<<>>, <<"localhost">>, <<"jeweler", "com">>,
          <<"www", "jeweler", "com">>, <<"api", "jeweler", "com">>,
          <<"shop1", "jeweler", "com">>, <<"shop2", "jeweler", "com">>}

\* X-Tenant-ID
TenantHeaders == {"", "t1", "t2"}

\* Authorization: valid is what jwt.verify decides, tenantId the claim of
\* the payload ("" when the payload has none)
NoAuth == [scheme |-> "none", valid |-> FALSE, tenantId |-> ""]

Auths == {NoAuth,
          [scheme |-> "Basic", valid |-> FALSE, tenantId |-> ""],
          [scheme |-> "Bearer", valid |-> FALSE, tenantId |-> "t1"],
          [scheme |-> "Bearer", valid |-> TRUE, tenantId |-> ""],
          [scheme |-> "Bearer", valid |-> TRUE, tenantId |-> "t1"],
          [scheme |-> "Bearer", valid |-> TRUE, tenantId |-> "t2"]}

\* result: what extractTenantContext returned; validated and info: the id
\* and the status of validation.tenant; error: validation.error; http and
\* code: the response sent (0: none); tenantId and tenantDb: what was put on
\* the request; next: next() was called
TmIdle == [pc |-> "idle", host |-> <<>>, header |-> "", auth |-> NoAuth,
           identifier |-> "", result |-> "none", failed |-> FALSE,
           validated |-> "none", info |-> "none", error |-> "",
           http |-> 0, code |-> "", tenantId |-> "", tenantDb |-> 0,
           next |-> FALSE]

TenantInit == tm = [q \in Requests |-> TmIdle]

\* Method 1: the first label of a host with a dot, unless it is www or api
HostSubdomain(host) ==
    IF Len(host) > 1 /\ host[1] # "" /\ host[1] # "www" /\ host[1] # "api"
      THEN host[1] ELSE ""

\* Method 3: the tenantId of a bearer token that jwt.verify accepts
TokenTenant(auth) ==
    IF auth.scheme = "Bearer" /\ auth.valid THEN auth.tenantId ELSE ""

\* tenantIdentifier as extractTenantContext determines it: each method runs
\* only if (!tenantIdentifier)
Identifier(host, header, auth) ==
    IF HostSubdomain(host) # "" THEN HostSubdomain(host)
    ELSE IF header # "" THEN header
    ELSE TokenTenant(auth)

\* the rows that where: { OR: [{subdomain: identifier}, {id: identifier}] }
\* selects
Matching(identifier) ==
    {t \in Tenants : /\ platformTenants[t] # "MISSING"
                     /\ (SubdomainOf[t] = identifier \/ t = identifier)}

\* extractTenantContext up to its await: null when no method found an
\* identifier
extractTenantContext_Start(q, host, header, auth) ==
    /\ tm[q].pc = "idle"
    /\ LET id == Identifier(host, header, auth)
       IN  tm' = [tm EXCEPT ![q] =
                    [TmIdle EXCEPT !.pc = IF id = "" THEN "done" ELSE "findFirst",
                                   !.host = host, !.header = header, !.auth = auth,
                                   !.identifier = id,
                                   !.result = IF id = "" THEN "null" ELSE "none"]]
    /\ UNCHANGED nonTenantVars

\* platformDb.tenant.findFirst resolves with one of the matching rows, or
\* with null when there is none
extractTenantContext_FindFirst(q) ==
    /\ tm[q].pc = "findFirst"
    /\ \E t \in Matching(tm[q].identifier) \cup {"null"} :
         /\ t = "null" => Matching(tm[q].identifier) = {}
         /\ tm' = [tm EXCEPT ![q] = [tm[q] EXCEPT !.pc = "done", !.result = t]]
    /\ UNCHANGED nonTenantVars

\* findFirst rejects: the catch block logs and returns null
extractTenantContext_FindFirst_Error(q) ==
    /\ tm[q].pc = "findFirst"
    /\ tm' = [tm EXCEPT ![q] = [tm[q] EXCEPT !.pc = "done", !.result = "null",
                                             !.failed = TRUE]]
    /\ UNCHANGED nonTenantVars

\* the caller has the tenant context
extractTenantContext_Return(q) ==
    /\ tm[q].pc = "done"
    /\ tm' = [tm EXCEPT ![q] = TmIdle]
    /\ UNCHANGED nonTenantVars

\* the worker of the registry model that runs the getTenantDb calls of a
\* request
WorkerOf(q) == "w1"

\* validateTenant's status checks: the error of a status that is rejected
ValidationErrorLax(status) ==
    IF status = "SUSPENDED" THEN "Tenant account is suspended" ELSE ""

ValidationError(status) ==
    CASE status = "SUSPENDED" -> "Tenant account is suspended"
      [] status = "CANCELLED" -> "Tenant account is cancelled"
      [] OTHER                -> ""

\* error.includes('suspended') ? 403 : error.includes('cancelled') ? 403 :
\* error.includes('not found') ? 404 : 500
StatusCodeOf(error) ==
    CASE error = "Tenant account is suspended" -> 403
      [] error = "Tenant account is cancelled" -> 403
      [] error = "Tenant not found"            -> 404
      [] OTHER                                 -> 500

\* error.toUpperCase().replace(/\s+/g, '_') || 'TENANT_INVALID'
ErrorCodeOf(error) ==
    CASE error = "Tenant account is suspended"       -> "TENANT_ACCOUNT_IS_SUSPENDED"
      [] error = "Tenant account is cancelled"       -> "TENANT_ACCOUNT_IS_CANCELLED"
      [] error = "Tenant not found"                  -> "TENANT_NOT_FOUND"
      [] error = "Tenant database is not accessible" -> "TENANT_DATABASE_IS_NOT_ACCESSIBLE"
      [] error = "Tenant validation failed"          -> "TENANT_VALIDATION_FAILED"
      [] OTHER                                       -> "TENANT_INVALID"

\* if (!validation.isValid): the response made from validation.error
Invalid(r, error) ==
    [r EXCEPT !.pc = "responded", !.error = error,
              !.http = StatusCodeOf(error), !.code = ErrorCodeOf(error)]

\* if (!tenantContext): 400 TENANT_REQUIRED
tenantMiddleware_NoContext(q) ==
    /\ tm[q].pc = "done"
    /\ tm[q].result = "null"
    /\ tm' = [tm EXCEPT ![q] = [tm[q] EXCEPT !.pc = "responded", !.http = 400,
                                             !.code = "TENANT_REQUIRED"]]
    /\ UNCHANGED nonTenantVars

\* tenantService.validateTenant(tenantContext.id) up to getTenant's await
tenantMiddleware_Validate(q) ==
    /\ tm[q].pc = "done"
    /\ tm[q].result # "null"
    /\ tm' = [tm EXCEPT ![q] = [tm[q] EXCEPT !.pc = "getTenant"]]
    /\ UNCHANGED nonTenantVars

\* getTenant's findFirst resolves; validateTenant's checks of the row
validateTenant_GetTenant(q) ==
    /\ tm[q].pc = "getTenant"
    /\ \E t \in Matching(tm[q].result) \cup {"null"} :
         /\ t = "null" => Matching(tm[q].result) = {}
         /\ tm' = [tm EXCEPT ![q] =
                IF t = "null"
                  THEN Invalid(tm[q], "Tenant not found")
                  ELSE LET r == [tm[q] EXCEPT !.validated = t,
                                              !.info = platformTenants[t]]
                           error == ValidationError(platformTenants[t])
                       IN  IF error # "" THEN Invalid(r, error)
                           ELSE [r EXCEPT !.pc = "validateDb"]]
    /\ UNCHANGED nonTenantVars

\* getTenant throws: validateTenant's outer catch
validateTenant_GetTenant_Error(q) ==
    /\ tm[q].pc = "getTenant"
    /\ tm' = [tm EXCEPT ![q] = Invalid(tm[q], "Tenant validation failed")]
    /\ UNCHANGED nonTenantVars

\* validateTenant's getTenantDb(tenant.id) has returned or thrown, and
\* SELECT 1 on the handle resolves or rejects
validateTenant_Db(q) ==
    /\ tm[q].pc = "validateDb"
    /\ reg[WorkerOf(q)].pc = "done"
    /\ \E ok \in BOOLEAN :
         tm' = [tm EXCEPT ![q] =
                IF reg[WorkerOf(q)].result = "ok" /\ ok
                  THEN [tm[q] EXCEPT !.pc = "acquire"]
                  ELSE Invalid(tm[q], "Tenant database is not accessible")]
    /\ reg' = [reg EXCEPT ![WorkerOf(q)] = RegIdle]
    /\ UNCHANGED <<platformTenants, tenantConnections, clients, updates, closes, rel>>
    /\ UNCHANGED <<now, rlVars, cacheVars, sessVars>>

\* the middleware's getTenantDb(tenantContext.id) has returned: the context
\* is put on the request and next() is called; or it has thrown: the catch
\* block answers 500 TENANT_ERROR
tenantMiddleware_Attach(q) ==
    /\ tm[q].pc = "acquire"
    /\ reg[WorkerOf(q)].pc = "done"
    /\ tm' = [tm EXCEPT ![q] =
            IF reg[WorkerOf(q)].result = "ok"
              THEN [tm[q] EXCEPT !.pc = "responded", !.tenantId = tm[q].result,
                                 !.tenantDb = reg[WorkerOf(q)].client,
                                 !.next = TRUE]
              ELSE [tm[q] EXCEPT !.pc = "responded", !.http = 500,
                                 !.code = "TENANT_ERROR"]]
    /\ reg' = [reg EXCEPT ![WorkerOf(q)] = RegIdle]
    /\ UNCHANGED <<platformTenants, tenantConnections, clients, updates, closes, rel>>
    /\ UNCHANGED <<now, rlVars, cacheVars, sessVars>>

\* the request is over
tenantMiddleware_Return(q) ==
    /\ tm[q].pc = "responded"
    /\ tm' = [tm EXCEPT ![q] = TmIdle]
    /\ UNCHANGED nonTenantVars

\* the tenant whose connection the request is asking the registry for
Acquiring(q) ==
    CASE tm[q].pc = "validateDb" -> {tm[q].validated}
      [] tm[q].pc = "acquire"    -> {tm[q].result}
      [] OTHER                   -> {}

\* requests through tenantMiddleware, one at a time; a tenant's status is
\* changed between requests
NextTenantMiddleware ==
    \/ \E q \in Requests, host \in Hosts, header \in TenantHeaders, auth \in Auths :
         extractTenantContext_Start(q, host, header, auth)
    \/ \E q \in Requests : extractTenantContext_FindFirst(q)
    \/ \E q \in Requests : extractTenantContext_FindFirst_Error(q)
    \/ \E q \in Requests : tenantMiddleware_NoContext(q)
    \/ \E q \in Requests : tenantMiddleware_Validate(q)
    \/ \E q \in Requests : validateTenant_GetTenant(q)
    \/ \E q \in Requests : validateTenant_GetTenant_Error(q)
    \/ \E q \in Requests, t \in Tenants :
         /\ t \in Acquiring(q)
         /\ getTenantDb_Start(WorkerOf(q), t)
    \/ \E q \in Requests : getTenantDb_FindUnique(WorkerOf(q))
    \/ \E q \in Requests : getTenantDb_Connect(WorkerOf(q))
    \/ \E q \in Requests : validateTenant_Db(q)
    \/ \E q \in Requests : tenantMiddleware_Attach(q)
    \/ \E q \in Requests : tenantMiddleware_Return(q)
    \/ \E t \in Tenants, st \in TenantStatus :
         /\ \A q \in Requests : tm[q].pc = "idle"
         /\ updateTenant(t, st)

NextTenant ==
    \/ \E q \in Requests, host \in Hosts, header \in TenantHeaders, auth \in Auths :
         extractTenantContext_Start(q, host, header, auth)
    \/ \E q \in Requests : extractTenantContext_FindFirst(q)
    \/ \E q \in Requests : extractTenantContext_FindFirst_Error(q)
    \/ \E q \in Requests : extractTenantContext_Return(q)

-----------------------------------------------------------------------------
(***************************************************************************)
(* Claims about the TenantConnectionRegistry                               *)
(***************************************************************************)
ClientIds == 1..Len(clients)

LiveClientsOf(t) ==
    {c \in ClientIds : clients[c].tenant = t /\ clients[c].state \in {"connecting", "open"}}

\* C1: concurrent getTenantDb(T) calls for a tenant without a registry entry
\* establish exactly one connection (at most one client of T is being
\* connected or open) and every caller that gets a handle gets that same one.
C1_SingleEstablishment ==
    /\ \A t \in Tenants : Cardinality(LiveClientsOf(t)) <= 1
    /\ \A w1, w2 \in Workers :
         (/\ reg[w1].pc = "done" /\ reg[w1].result = "ok"
          /\ reg[w2].pc = "done" /\ reg[w2].result = "ok"
          /\ reg[w1].tenant = reg[w2].tenant)
         => reg[w1].client = reg[w2].client

\* C7: when $connect() fails the caller gets the connection-failed error, the
\* failed client is never stored in the registry (the failing step leaves the
\* Map unchanged), and an acquire that starts while T has no entry goes to a
\* fresh tenant lookup instead of returning a handle.
C7_FailedConnectNotCached ==
    [][\A w \in Workers :
         /\ (reg[w].pc = "connect" /\ reg'[w].pc = "done"
             /\ clients'[reg[w].client].state = "failed")
            => /\ reg'[w].result = ErrConnect
               /\ tenantConnections' = tenantConnections
               /\ \A t \in Tenants : tenantConnections'[t] # reg[w].client
         /\ (reg[w].pc = "idle" /\ reg'[w].pc # "idle"
             /\ tenantConnections[reg'[w].tenant] = 0)
            => /\ reg'[w].pc = "findUnique"
               /\ reg'[w].client = 0
         /\ (reg[w].pc = "findUnique" /\ reg'[w].pc = "connect")
            => /\ reg'[w].client = Len(clients) + 1
               /\ clients'[reg'[w].client].state = "connecting"
      ]_vars

\* a worker whose connect failed has started again for the same tenant and
\* constructed a second client, the registry holding no entry meanwhile
C7_Witness ==
    \E w \in Workers, c1, c2 \in ClientIds :
        /\ c1 < c2
        /\ clients[c1].by = w /\ clients[c2].by = w
        /\ clients[c1].tenant = clients[c2].tenant
        /\ clients[c1].state = "failed"
        /\ \A c \in ClientIds : c \notin {c1, c2} => clients[c].tenant # clients[c1].tenant
        /\ reg[w].pc = "connect" /\ reg[w].client = c2

\* C8: getTenantDb for a tenant without an entry whose status is neither
\* ACTIVE nor TRIAL fails with "Tenant is not active", for an unknown id with
\* "Tenant not found"; in both cases no client is constructed and the
\* registry is unchanged.
C8_InactiveOrUnknownRejected ==
    [][\A w \in Workers :
         (reg[w].pc = "findUnique" /\ reg'[w].pc # "findUnique")
         => LET st == platformTenants[reg[w].tenant]
            IN  /\ st = "MISSING"
                   => /\ reg'[w].pc = "done" /\ reg'[w].result = ErrNotFound
                      /\ UNCHANGED <<clients, tenantConnections>>
                /\ st \in {"SUSPENDED", "CANCELLED"}
                   => /\ reg'[w].pc = "done" /\ reg'[w].result = ErrInactive
                      /\ UNCHANGED <<clients, tenantConnections>>
                /\ st \in {"ACTIVE", "TRIAL"} => reg'[w].pc = "connect"
      ]_vars

\* one caller was refused for a suspended or cancelled tenant, another for an
\* unknown tenant id
C8_Witness ==
    \E w1, w2 \in Workers :
        /\ reg[w1].pc = "done" /\ reg[w1].result = ErrInactive
        /\ platformTenants[reg[w1].tenant] \in {"SUSPENDED", "CANCELLED"}
        /\ reg[w2].pc = "done" /\ reg[w2].result = ErrNotFound
        /\ tenantConnections[reg[w1].tenant] = 0
        /\ tenantConnections[reg[w2].tenant] = 0

-----------------------------------------------------------------------------
(***************************************************************************)
(* Claims about the RateLimiter                                            *)
(***************************************************************************)
WindowEnd(win) == win * WindowMs + WindowMs

\* what the INCR step of worker w handed back to checkRateLimit
Returned(r) == IF r.pc = "expire" THEN r.count ELSE r.info.totalHits

\* C4: within one window, on a counter that no reset, decrement or store error
\* has touched, every checkRateLimit gets the previous totalHits plus one
\* (1, 2, ..., N in the order of the increments, so no two calls get the same
\* value), reports remainingPoints = maxRequests - totalHits, which goes
\* negative on the call after the limit, and the counter outlives its window.
C4_HitsCountUp ==
    /\ [](\A w \in Workers :
            (rl[w].pc = "checked" /\ ~rl[w].info.error)
            => rl[w].info.remainingPoints = MaxRequests - rl[w].info.totalHits)
    /\ [](\A rk \in RlRedisKeys :
            (rlLog[rk].clean /\ rlCounters[rk].present
             /\ rlCounters[rk].exp # NoExpiry)
            => rlCounters[rk].exp >= WindowEnd(rk[2]))
    /\ [][\A w \in Workers :
            LET rk == <<rl[w].key, rl[w].window>>
            IN  (/\ rl[w].pc = "incr"
                 /\ rl'[w].pc \in {"expire", "checked"}
                 /\ ~rl'[w].info.error
                 /\ rlLog[rk].clean
                 /\ WindowOf(now) = rl[w].window)
                => Returned(rl'[w]) = rlLog[rk].last + 1
       ]_vars

\* the call after the limit: the fourth call of a window gets totalHits 4 and
\* remainingPoints -1, on a counter nothing but increments has touched
C4_Witness ==
    \E w \in Workers :
        /\ rl[w].pc = "checked"
        /\ rl[w].info.totalHits = MaxRequests + 1
        /\ rl[w].info.remainingPoints = -1
        /\ rlLog[<<rl[w].key, WindowOf(now)>>] = [clean |-> TRUE, last |-> MaxRequests + 1]

\* C5: as long as no store call has failed, a counter's count changes only by
\* the store's increment (by one), and its expiry is set once in the life of
\* the key, by the call whose increment took the count from 0 to 1.
C5_IncrementOnlyExpiryOnce ==
    [][rlUsed'.errors = 0 =>
       \A rk \in RlRedisKeys :
         LET c == rlCounters[rk]
             d == rlCounters'[rk]
             before == IF c.present THEN c.count ELSE 0
         IN  /\ (d.present /\ d.count # before) => d.count = before + 1
             /\ (c.present /\ d.present /\ d.exp # c.exp)
                => /\ c.exp = NoExpiry
                   /\ \E w \in Workers :
                        /\ rl[w].pc = "expire" /\ rl'[w].pc = "checked"
                        /\ <<rl[w].key, rl[w].window>> = rk
                        /\ rl[w].count = 1
      ]_vars

-----------------------------------------------------------------------------
(***************************************************************************)
(* Claims about the CacheService                                           *)
(***************************************************************************)
\* a namespace that the caller gave
Scoped(n) == n # <<>>

\* the call of worker w that has just been answered observed or replaced an
\* entry
Observes(w) ==
    \/ cache[w].op = "get" /\ cache[w].result # "null"
    \/ cache[w].op = "exists" /\ cache[w].result = "true"

\* C3: for namespaces N1 # N2, whatever the key names, a get or exists scoped
\* to N1 never observes an entry written under N2, and a set or delete scoped
\* to N1 never changes the presence or the value of an entry written under N2.
C3_NamespaceIsolation ==
    /\ [](\A w \in Workers :
            (/\ cache[w].pc = "done"
             /\ Observes(w)
             /\ Scoped(cache[w].ns) /\ Scoped(cache[w].from))
            => cache[w].from = cache[w].ns)
    /\ [][\A w \in Workers, ck \in CacheKeys :
            (/\ cache[w].pc = "idle" /\ cache'[w].pc = "done"
             /\ cache'[w].op \in {"set", "delete"}
             /\ cacheStore[ck].present
             /\ <<cacheStore'[ck].present, cacheStore'[ck].text>>
                    # <<cacheStore[ck].present, cacheStore[ck].text>>
             /\ Scoped(cache'[w].ns) /\ Scoped(cacheStore[ck].ns))
            => cacheStore[ck].ns = cache'[w].ns
      ]_vars

\* C6: a getOrSet that invoked its compute function has stored the function's
\* result and returns it; and a getOrSet of the same key that directly follows
\* one that computed, before the stored entry's expiry, returns the same
\* result without invoking its own compute function.
C6_GetOrSetComputesOnce ==
    /\ [](\A w \in Workers :
            (/\ cache[w].pc = "done" /\ cache[w].op = "getOrSet"
             /\ cache[w].prev.op = "getOrSet" /\ cache[w].prev.invoked
             /\ cache[w].prev.ckey = buildKey(cache[w].key, cache[w].ns)
             /\ now < cache[w].prev.exp)
            => /\ ~cache[w].invoked
               /\ cache[w].result = cache[w].prev.result)
    /\ [][\A w \in Workers :
            (cache[w].pc = "set" /\ cache'[w].pc = "done")
            => LET ck == buildKey(cache[w].key, cache[w].ns)
               IN  /\ cache'[w].result = cache[w].val
                   /\ cacheStore'[ck].present
                   /\ Parse(cacheStore'[ck].text) = cache[w].val
      ]_vars

-----------------------------------------------------------------------------
(***************************************************************************)
(* Claims about the SessionService                                         *)
(***************************************************************************)
\* no session method is under way
SessionQuiescent == \A w \in Workers : sess[w].pc = "idle"

\* C2: whenever no session method is under way, every session key that exists
\* is a member of the session set of the userId stored in its data, and of no
\* other user's set.
C2_LiveSessionInOwnersSet ==
    SessionQuiescent =>
        \A s \in SessionIds :
            sessKeys[s].present =>
                \A u \in Users :
                    (s \in userSets[UserSessionsKey(u)].members)
                        <=> (u = SessionParse(sessKeys[s].text).userId)

\* C9: getUserSessions puts an id into its result only if the session key
\* existed when getSession read it; the only change it makes to a session set
\* is to take out of u's set an id whose session key it found absent; and when
\* it returns, none of the ids it found absent is in u's set, and every id of
\* the set it did not find absent is in the result.
C9_ListPrunesDangling ==
    /\ [](\A w \in Workers :
            (sess[w].op = "list" /\ sess[w].pc = "done")
            => /\ sess[w].dangling \cap userSets[UserSessionsKey(sess[w].user)].members = {}
               /\ sess[w].found \ sess[w].dangling \subseteq sess[w].result
               /\ sess[w].result \cap sess[w].dangling = {})
    /\ [][\A w \in Workers :
            (sess[w].op = "list" /\ now' = now)
            => /\ \A s \in sess'[w].result \ sess[w].result :
                    /\ s = sess[w].sid
                    /\ \/ sess[w].pc = "g_get" /\ sessKeys[s].present
                       \/ sess[w].pc \in {"g_ttl", "g_setEx"}
               /\ (sess[w].pc = "g_get" /\ sess'[w].pc = "g_ttl")
                    => sessKeys[sess[w].sid].present
               /\ \A u \in Users : \A s \in userSets[UserSessionsKey(u)].members \ userSets'[UserSessionsKey(u)].members :
                    /\ u = sess[w].user
                    /\ s \in sess[w].dangling
                    /\ ~sessKeys[s].present
      ]_vars

\* getUserSessions has returned the live one of two members and has pruned
\* the other, whose session had expired
C9_Witness ==
    \E w \in Workers :
        /\ sess[w].op = "list" /\ sess[w].pc = "done"
        /\ sess[w].dangling # {}
        /\ sess[w].result # {}
        /\ sess[w].result \subseteq userSets[UserSessionsKey(sess[w].user)].members

\* C10: when destroyAllUserSessions(u) has returned (one caller at a time),
\* no session key of an id that was in u's set when it read the set exists,
\* u's set has no members, and the count it returns is the number of session
\* keys that its del commands removed.
C10_DestroyAllLeavesNothing ==
    \A w \in Workers :
        (sess[w].op = "destroyAll" /\ sess[w].pc = "done")
        => /\ \A s \in sess[w].found : ~sessKeys[s].present
           /\ userSets[UserSessionsKey(sess[w].user)].members = {}
           /\ sess[w].count = Cardinality(sess[w].gone)

\* destroyAllUserSessions has returned 1 for a set of two members, one of
\* which had expired
C10_Witness ==
    \E w \in Workers :
        /\ sess[w].op = "destroyAll" /\ sess[w].pc = "done"
        /\ Cardinality(sess[w].found) = 2
        /\ sess[w].count = 1

\* C11: no step of destroyOtherUserSessions(u, keep) changes the stored text
\* or the expiry of the session keep or its membership in u's set; when it has
\* returned, no session key of another id that was in u's set exists, and the
\* count it returns is the number of session keys its del commands removed.
C11_DestroyOthersKeepsOne ==
    /\ [](\A w \in Workers :
            (sess[w].op = "destroyOthers" /\ sess[w].pc = "done")
            => /\ \A s \in sess[w].found \ {sess[w].keep} : ~sessKeys[s].present
               /\ sess[w].count = Cardinality(sess[w].gone))
    /\ [][\A w \in Workers :
            (sess[w].op = "destroyOthers" /\ now' = now)
            => /\ sessKeys'[sess[w].keep] = sessKeys[sess[w].keep]
               /\ (sess[w].keep \in userSets'[UserSessionsKey(sess[w].user)].members)
                    <=> (sess[w].keep \in userSets[UserSessionsKey(sess[w].user)].members)
      ]_vars

\* destroyOtherUserSessions has destroyed one of the user's two sessions and
\* the one to keep exists and is in the set
C11_Witness ==
    \E w \in Workers :
        /\ sess[w].op = "destroyOthers" /\ sess[w].pc = "done"
        /\ sess[w].keep \in sess[w].found
        /\ sess[w].count = 1
        /\ sessKeys[sess[w].keep].present
        /\ userSets[UserSessionsKey(sess[w].user)].members = {sess[w].keep}

\* C12: updateSession of a session key that does not exist returns false and
\* changes neither a session key nor a set; updateSession of a session key
\* that exists returns true, and its write leaves under the key the old data
\* overridden by the fields of the partial, with the expiry the key had.
C12_UpdateKeepsTtl ==
    [][\A w \in Workers :
        (sess[w].op = "update" /\ now' = now)
        => LET s == sess[w].sid
               old == sessKeys[s]
               new == sessKeys'[s]
           IN  /\ userSets' = userSets
               /\ (sess[w].pc = "g_get" /\ ~old.present)
                    => /\ sess'[w].pc = "done" /\ ~sess'[w].ok
                       /\ sessKeys' = sessKeys
               /\ (sess[w].pc = "u_ttl" /\ old.present) => sess'[w].pc = "u_setEx"
               /\ sess[w].pc = "u_setEx"
                    => /\ sess'[w].pc = "done" /\ sess'[w].ok
                       /\ old.present /\ new.present
                       /\ Passed(SessionParse(new.text))
                            = Passed(Merge(SessionParse(old.text), sess[w].upd))
                       /\ new.exp = old.exp
      ]_vars

\* C13: destroySession of a session key that exists at its del returns true,
\* and when it has returned the key is gone and the id is not in the set of
\* the userId that the session's data held; destroySession of a session key
\* that does not exist returns false and changes neither a key nor a set.
C13_DestroyRemovesKeyAndMember ==
    /\ [](\A w \in Workers :
            (sess[w].op = "destroy" /\ sess[w].pc = "done")
            => /\ ~sessKeys[sess[w].sid].present
               /\ sess[w].data # NoData
                    => sess[w].sid \notin userSets[UserSessionsKey(sess[w].data.userId)].members)
    /\ [][\A w \in Workers :
            (sess[w].op = "destroy" /\ now' = now)
            => LET s == sess[w].sid
               IN  /\ (sess[w].pc = "g_get" /\ ~sessKeys[s].present)
                        => /\ sess'[w].pc = "d_del" /\ sess'[w].data = NoData
                           /\ sessKeys' = sessKeys /\ userSets' = userSets
                   /\ sess[w].pc = "d_sRem"
                        => /\ sessKeys' = sessKeys
                           /\ \A u \in Users : u # sess[w].data.userId
                                => userSets'[UserSessionsKey(u)] = userSets[UserSessionsKey(u)]
                   /\ sess[w].pc = "d_del"
                        => /\ sess'[w].pc = "done"
                           /\ sess'[w].ok = sessKeys[s].present
                           /\ userSets' = userSets
                           /\ sess[w].data = NoData
                                => ~sess'[w].ok /\ sessKeys' = sessKeys
      ]_vars

\* destroySession has returned true for one of a user's two sessions, and
\* the other one is still in the set
C13_Witness ==
    \E w \in Workers :
        /\ sess[w].op = "destroy" /\ sess[w].pc = "done" /\ sess[w].ok
        /\ sess[w].gone = {sess[w].sid}
        /\ userSets[UserSessionsKey(sess[w].data.userId)].members # {}

\* C14: getSession of an id for which neither updateSession nor
\* destroySession has been called since createSession returns, as long as the
\* key exists, the userId and the role (standing for tenantId, email and
\* role) that createSession was passed.
C14_GetReturnsCreated ==
    /\ [](\A w \in Workers :
            (/\ sess[w].op = "get" /\ sess[w].pc = "done"
             /\ sessUsed.made[sess[w].sid].clean
             /\ sess[w].data # NoData)
            => Passed(sess[w].data) = sessUsed.made[sess[w].sid].passed)
    /\ [][\A w \in Workers :
            (/\ sess[w].op = "get" /\ sess[w].pc = "g_get"
             /\ sess'[w].pc # "g_get"
             /\ sessKeys[sess[w].sid].present)
            => sess'[w].data # NoData
      ]_vars

\* getSession has returned an admin's session that it read more than a minute
\* after createSession, with lastActivity rewritten
C14_Witness ==
    \E w \in Workers :
        /\ sess[w].op = "get" /\ sess[w].pc = "done"
        /\ sessUsed.made[sess[w].sid].clean
        /\ sess[w].data.role = "admin"
        /\ sess[w].data.lastActivity > ActivityRefreshMs
        /\ SessionParse(sessKeys[sess[w].sid].text) = sess[w].data

\* C15: no step of getSession changes the expiry of the session key, creates
\* or removes the key, or changes a stored field other than lastActivity; and
\* it writes a lastActivity that is more than 60 s after the stored one.
C15_GetKeepsTtl ==
    [][\A w \in Workers :
        (sess[w].op = "get" /\ now' = now)
        => LET old == sessKeys[sess[w].sid]
               new == sessKeys'[sess[w].sid]
           IN  /\ new.present = old.present
               /\ new.exp = old.exp
               /\ old.present
                    => /\ Passed(SessionParse(new.text)) = Passed(SessionParse(old.text))
                       /\ new.text # old.text
                            => SessionParse(new.text).lastActivity
                                 - SessionParse(old.text).lastActivity > ActivityRefreshMs
      ]_vars

\* C16: extendSession of a session key that exists makes the key expire ttl
\* seconds after the command, leaves the stored text unchanged and returns
\* true; extendSession of a key that does not exist returns false and changes
\* no key; and it changes no set.
C16_ExtendSetsTtl ==
    [][\A w \in Workers :
        (sess[w].op = "extend" /\ sess[w].pc = "e_expire" /\ sess'[w].pc = "done")
        => LET old == sessKeys[sess[w].sid]
               new == sessKeys'[sess[w].sid]
           IN  /\ userSets' = userSets
               /\ \A s \in SessionIds : s # sess[w].sid => sessKeys'[s] = sessKeys[s]
               /\ old.present
                    => /\ sess'[w].ok
                       /\ new.present /\ new.text = old.text
                       /\ new.exp = now + sess[w].ttl * SecMs
               /\ ~old.present => ~sess'[w].ok /\ ~new.present
      ]_vars

\* extendSession(S, 1) has returned true for a session created with the
\* default ttl, which now expires in one second
C16_Witness ==
    \E w \in Workers :
        /\ sess[w].op = "extend" /\ sess[w].pc = "done" /\ sess[w].ok
        /\ sess[w].ttl = 1
        /\ sessKeys[sess[w].sid].present
        /\ sessKeys[sess[w].sid].exp = now + SecMs
        /\ userSets[UserSessionsKey(sessUsed.made[sess[w].sid].passed.userId)].exp
             > now + SecMs

\* the user for whom the call of worker w is made: the userId argument of
\* createSession and of the methods on a user's sessions, else the user who
\* created the session the call is about
OperatesFor(w) ==
    IF sess[w].op \in {"create", "list", "destroyAll", "destroyOthers"}
      THEN sess[w].user
      ELSE IF sess[w].op \in {"get", "update", "destroy", "extend"}
             THEN sessUsed.made[sess[w].sid].passed.userId
             ELSE "none"

\* C17: no step of a session method called for user u1, or for a session that
\* u1 created, changes the session set of another user, and the set such a
\* method lists is u1's own, also after updates that changed the userId of
\* stored data.
C17_OtherUsersSetUntouched ==
    [][\A w \in Workers :
        (OperatesFor(w) \in Users /\ now' = now)
        => /\ \A u \in Users \ {OperatesFor(w)} :
                userSets'[UserSessionsKey(u)] = userSets[UserSessionsKey(u)]
           /\ (sess[w].pc = "sMembers" /\ sess'[w].pc # "sMembers")
                => sess'[w].found = userSets[UserSessionsKey(OperatesFor(w))].members
      ]_vars

\* destroySession has returned for a session whose stored userId an update
\* had changed to another user: its sRem went to that user's set, and the id
\* is still in the set of the user who created the session
C17_Witness ==
    \E w \in Workers :
        /\ sess[w].op = "destroy" /\ sess[w].pc = "done" /\ sess[w].ok
        /\ sess[w].data.userId # OperatesFor(w)
        /\ sess[w].sid \in userSets[UserSessionsKey(OperatesFor(w))].members

\* C18: closeTenantDb(T) closes the client the registry holds for T and
\* deletes T's entry, leaving the entries of other tenants as they are;
\* closeTenantDb(T) without an entry for T returns without an error and
\* changes neither the registry nor any client, so a second closeTenantDb(T)
\* leaves the state of the first.
C18_ReleaseIdempotent ==
    [][\A r \in Closers :
         /\ (rel[r].pc = "idle" /\ rel'[r].pc # "idle" /\ rel'[r].op = "close"
             /\ tenantConnections[rel'[r].tenant] = 0)
            => /\ rel'[r].pc = "done"
               /\ rel'[r].result = "closed"
               /\ tenantConnections' = tenantConnections
               /\ clients' = clients
         /\ (rel[r].pc = "idle" /\ rel'[r].pc # "idle" /\ rel'[r].op = "close"
             /\ tenantConnections[rel'[r].tenant] # 0)
            => /\ rel'[r].pc = "disconnect"
               /\ rel'[r].client = tenantConnections[rel'[r].tenant]
         /\ (rel[r].pc = "disconnect" /\ rel'[r].pc = "done"
             /\ rel'[r].result = "closed")
            => /\ clients'[rel[r].client].state = "closed"
               /\ tenantConnections'[rel[r].tenant] = 0
               /\ \A t \in Tenants \ {rel[r].tenant} :
                    tenantConnections'[t] = tenantConnections[t]
               /\ \A c \in ClientIds \ {rel[r].client} : clients'[c] = clients[c]
      ]_vars

\* a closeTenantDb(T) that closed T's client was followed by a second
\* closeTenantDb(T), which found no entry and returned
C18_Witness ==
    \E r \in Closers :
        /\ rel[r].pc = "done" /\ rel[r].op = "close" /\ rel[r].again
        /\ rel[r].client = 0 /\ rel[r].result = "closed"
        /\ tenantConnections[rel[r].tenant] = 0
        /\ \E c \in ClientIds :
             clients[c].tenant = rel[r].tenant /\ clients[c].state = "closed"

\* C19: when closeAllTenantConnections ends, by returning or by throwing, the
\* registry is empty and every client that it set out to disconnect or
\* that the registry holds at that moment is closed.
C19_ReleaseAllClosesEverything ==
    [][\A r \in Closers :
         (rel'[r].op = "closeAll" /\ rel[r].pc # "done" /\ rel'[r].pc = "done")
         => /\ tenantConnections' = [t \in Tenants |-> 0]
            /\ \A c \in RegistryClients \cup rel[r].pending :
                 clients'[c].state = "closed"
      ]_vars

\* C20: CacheService.set with a value that JSON.stringify cannot serialize
\* returns false instead of throwing and leaves the store as it is: no key
\* is created, and an entry under the key keeps its text and its expiry.
C20_UnserializableSetChangesNothing ==
    [][\A w \in CacheCallers :
         (/\ cache[w].pc = "idle" /\ cache'[w].pc # "idle"
          /\ cache'[w].op = "set" /\ cache'[w].val = "cyclic")
         => /\ cache'[w].pc = "done"
            /\ cache'[w].result = "false"
            /\ cacheStore' = cacheStore
      ]_vars

\* set of a cyclic value has returned false on a key that holds the text of
\* an earlier set
C20_Witness ==
    \E w \in CacheCallers :
        /\ cache[w].pc = "done" /\ cache[w].op = "set"
        /\ cache[w].val = "cyclic" /\ cache[w].result = "false"
        /\ cacheStore[buildKey(cache[w].key, cache[w].ns)].present
        /\ cacheStore[buildKey(cache[w].key, cache[w].ns)].text = "{A}"

\* C21: a cache method never throws, and one whose store command was
\* rejected (or that found the store unavailable) returns its fail-open
\* value: get null; set, delete and exists false; invalidatePattern,
\* increment and decrement 0; getCacheStats zero keys and 'Unknown' memory;
\* getOrSet the result of its compute function.
C21_CacheFailsOpen ==
    \A w \in CacheCallers :
        /\ cache[w].result # Throws
        /\ (cache[w].pc = "done" /\ cache[w].failed) =>
              /\ cache[w].op \in {"get", "set", "delete", "exists", "invalidatePattern",
                                  "increment", "decrement", "getCacheStats", "getOrSet"}
              /\ cache[w].op = "get" => cache[w].result = "null"
              /\ cache[w].op \in {"set", "delete", "exists"} => cache[w].result = "false"
              /\ cache[w].op \in {"invalidatePattern", "increment", "decrement"}
                    => cache[w].result = "number" /\ cache[w].count = 0
              /\ cache[w].op = "getCacheStats"
                    => cache[w].result = "Unknown" /\ cache[w].count = 0
              /\ cache[w].op = "getOrSet"
                    => cache[w].invoked /\ cache[w].result = cache[w].val

\* a getOrSet whose get and whose set were both rejected has returned what
\* its compute function gave, and the store holds nothing under the key
C21_Witness ==
    \E w \in CacheCallers :
        /\ cache[w].pc = "done" /\ cache[w].op = "getOrSet" /\ cache[w].failed
        /\ cache[w].invoked /\ cache[w].result = "objA"
        /\ ~cacheStore[buildKey(cache[w].key, cache[w].ns)].present
        /\ cache[w].prev.op = "invalidatePattern"

\* C22: getOrSet has no single-flight: two concurrent calls for the same
\* absent key can both miss and both invoke their compute function (the
\* witness).  Each call that computed returns the result of its own
\* function, and when both have ended the entry, unless expired, holds the
\* result of one of the two.
C22_ConcurrentMissesBothCompute ==
    /\ \A w \in Workers :
         (cache[w].pc = "done" /\ cache[w].op = "getOrSet" /\ cache[w].invoked)
         => cache[w].result = cache[w].val
    /\ \A w1, w2 \in Workers :
         (/\ w1 # w2
          /\ cache[w1].pc = "done" /\ cache[w1].op = "getOrSet" /\ cache[w1].invoked
          /\ cache[w2].pc = "done" /\ cache[w2].op = "getOrSet" /\ cache[w2].invoked
          /\ buildKey(cache[w1].key, cache[w1].ns) = buildKey(cache[w2].key, cache[w2].ns)
          /\ cacheStore[buildKey(cache[w1].key, cache[w1].ns)].present)
         => Parse(cacheStore[buildKey(cache[w1].key, cache[w1].ns)].text)
                \in {cache[w1].val, cache[w2].val}

\* both calls missed and computed, with different results; each has
\* returned its own, and the entry holds the result of w1
C22_Witness ==
    /\ cache["w1"].pc = "done" /\ cache["w1"].op = "getOrSet" /\ cache["w1"].invoked
    /\ cache["w2"].pc = "done" /\ cache["w2"].op = "getOrSet" /\ cache["w2"].invoked
    /\ cache["w1"].key = cache["w2"].key /\ cache["w1"].ns = cache["w2"].ns
    /\ cache["w1"].result = "objA" /\ cache["w2"].result = "objB"
    /\ cacheStore[buildKey(cache["w1"].key, cache["w1"].ns)].present
    /\ cacheStore[buildKey(cache["w1"].key, cache["w1"].ns)].text = "{A}"

\* the key that a caller of namespace n gave for the entry under ck
NameOf(ck, n) == IF n = <<>> THEN ck ELSE SubSeq(ck, Len(n) + 2, Len(ck))

\* the entry under ck was written under namespace n with a key matching p
Targets(ck, p, n) ==
    /\ cacheStore[ck].present
    /\ cacheStore[ck].ns = n
    /\ GlobMatches(p, NameOf(ck, n))

\* C23: invalidatePattern(p, N) deletes the entries written under namespace
\* N whose key matches p and no other entry, and returns the number of
\* entries it deleted, 0 when none matches.
C23_InvalidatePatternExact ==
    [][\A w \in CacheCallers :
         /\ (cache[w].pc = "del" /\ cache'[w].pc = "done" /\ ~cache'[w].failed)
            => /\ \A ck \in CacheKeys :
                    cacheStore'[ck] # cacheStore[ck]
                    => Targets(ck, cache[w].key, cache[w].ns)
               /\ \A ck \in CacheKeys :
                    Targets(ck, cache[w].key, cache[w].ns) => ~cacheStore'[ck].present
               /\ cache'[w].count =
                    Cardinality({ck \in CacheKeys :
                        cacheStore[ck].present /\ ~cacheStore'[ck].present})
         /\ (cache[w].pc = "idle" /\ cache'[w].op = "invalidatePattern"
             /\ cache'[w].pc # "idle")
            => /\ cacheStore' = cacheStore
               /\ cache'[w].pc = "done"
                    => /\ cache'[w].count = 0
                       /\ \A ck \in CacheKeys :
                            ~Targets(ck, cache'[w].key, cache'[w].ns)
      ]_vars

\* C25: set with ttl t stores the value with an expiry of t seconds from
\* the call (the default when no ttl is given), get returns the stored value
\* while the entry is there and null otherwise, the entry is there exactly
\* until its expiry, and no entry that set or setWithExpireAt wrote is ever
\* in the store without an expiry.
C25_EntriesExpire ==
    /\ [](\A ck \in CacheKeys :
            cacheStore[ck].present => cacheStore[ck].exp # NoExpiry)
    /\ [][\A w \in CacheCallers :
            /\ (cache[w].pc = "idle" /\ cache'[w].pc = "done" /\ cache'[w].op = "set")
               => LET ck == buildKey(cache'[w].key, cache'[w].ns)
                      t == IF cache'[w].ttl = 0 THEN DEFAULT_TTL ELSE cache'[w].ttl
                  IN  /\ cache'[w].result = "true"
                      /\ cacheStore'[ck].present
                      /\ Parse(cacheStore'[ck].text) = cache'[w].val
                      /\ cacheStore'[ck].exp = now + t * SecMs
            /\ (cache[w].pc = "idle" /\ cache'[w].pc = "done" /\ cache'[w].op = "get")
               => LET ck == buildKey(cache'[w].key, cache'[w].ns)
                  IN  cache'[w].result = IF cacheStore[ck].present
                                           THEN Parse(cacheStore[ck].text)
                                           ELSE "null"
            /\ now' # now
               => \A ck \in CacheKeys :
                    cacheStore'[ck].present
                    <=> (cacheStore[ck].present /\ (cacheStore[ck].exp = NoExpiry
                                                    \/ now' < cacheStore[ck].exp))
      ]_vars

\* the number that the store holds under ck, 0 for an absent key
Counter(store, ck) ==
    IF store[ck].present THEN CHOOSE n \in CounterRange : ToString(n) = store[ck].text
    ELSE 0

\* what a counter call adds
Delta(r) == IF r.op = "increment" THEN r.ttl ELSE -r.ttl

\* C24: whatever other counter calls are pending, the store command of an
\* increment or decrement changes the counter of its key by its own delta,
\* an absent counter counting as 0, changes no other key, and the call
\* returns the counter's value right after that change; so the counter is
\* the sum of the deltas applied (two calls on a fresh key leave their sum).
C24_CountersAtomic ==
    /\ [][\A w \in Workers :
            (cache[w].pc \in {"incrBy", "decrBy"} /\ cache'[w].pc = "done")
            => LET ck == buildKey(cache[w].key, cache[w].ns)
               IN  /\ Counter(cacheStore', ck) = Counter(cacheStore, ck) + Delta(cache[w])
                   /\ cache'[w].count = Counter(cacheStore', ck)
                   /\ cacheStore'[ck].present
                   /\ \A other \in CacheKeys \ {ck} :
                        cacheStore'[other] = cacheStore[other]
       ]_vars
    /\ [](\A w1, w2 \in Workers :
            (/\ w1 # w2
             /\ cache[w1].pc = "done" /\ cache[w2].pc = "done"
             /\ cache[w1].prev.op = "none" /\ cache[w2].prev.op = "none"
             /\ buildKey(cache[w1].key, cache[w1].ns) = buildKey(cache[w2].key, cache[w2].ns))
            => Counter(cacheStore, buildKey(cache[w1].key, cache[w1].ns))
                  = Delta(cache[w1]) + Delta(cache[w2]))

\* increment by 2 and decrement by 1 of the same absent counter were pending
\* together; the decrement was executed first and returned -1, the
\* increment returned 1, which is the counter
C24_Witness ==
    /\ cache["w1"].pc = "done" /\ cache["w1"].op = "increment" /\ cache["w1"].ttl = 2
    /\ cache["w2"].pc = "done" /\ cache["w2"].op = "decrement" /\ cache["w2"].ttl = 1
    /\ "w1" \in cache["w2"].during
    /\ buildKey(cache["w1"].key, cache["w1"].ns) = buildKey(cache["w2"].key, cache["w2"].ns)
    /\ cache["w2"].count = -1 /\ cache["w1"].count = 1
    /\ cacheStore[buildKey(cache["w1"].key, cache["w1"].ns)].text = "1"

-----------------------------------------------------------------------------
Init ==
    /\ now = 0
    /\ RegInit
    /\ RlInit
    /\ CacheInit
    /\ SessionInit
    /\ TenantInit

\* C26: as long as no store call has failed, the first checkRateLimit whose
\* increment is executed on the counter of a key and window (no INCR was
\* executed on that counter before) gets totalHits = 1, whatever happened to
\* the key in other windows, and exactly a result with totalHits = 1 reports
\* isFirstInDuration.
C26_FirstOfWindowStartsAtOne ==
    /\ [](\A w \in Workers :
            (rl[w].pc = "checked" /\ ~rl[w].info.error)
            => (rl[w].info.isFirstInDuration <=> rl[w].info.totalHits = 1))
    /\ [][\A w \in Workers :
            LET rk == <<rl[w].key, rl[w].window>>
            IN  (/\ rl[w].pc = "incr"
                 /\ rl'[w].pc \in {"expire", "checked"}
                 /\ rlUsed'.errors = 0
                 /\ rk \notin rlUsed.hit)
                => Returned(rl'[w]) = 1
      ]_vars


C28_StatusReadsOnly ==
    [][\A w \in Workers :
         /\ ((rl[w].pc = "idle" /\ rl'[w].pc = "get")
             \/ (rl[w].pc = "get" /\ rl'[w].pc = "status")
             \/ (rl[w].pc = "status" /\ rl'[w].pc = "idle"))
            => rlCounters' = rlCounters
         /\ (rl[w].pc = "get" /\ rl'[w].pc = "status" /\ ~rl'[w].info.error)
            => LET c == rlCounters[<<rl[w].key, WindowOf(rl[w].now)>>]
                   info == rl'[w].info
               IN  /\ info.totalHits = IF c.present THEN c.count ELSE 0
                   /\ info.remainingPoints = MaxRequests - info.totalHits
                   /\ 0 < info.msBeforeNext
                   /\ info.msBeforeNext <= WindowMs
      ]_vars

\* a status read that found the count 2 and left the counter as it was
C28_Witness ==
    \E w \in Workers :
        /\ rl[w].pc = "status"
        /\ ~rl[w].info.error
        /\ rl[w].info.totalHits = 2
        /\ rl[w].info.remainingPoints = MaxRequests - 2
        /\ rl[w].info.msBeforeNext < WindowMs
        /\ rlCounters[<<rl[w].key, rl[w].window>>].present
        /\ rlCounters[<<rl[w].key, rl[w].window>>].count = 2


\* C29: a checkRateLimit whose INCR, or whose EXPIRE after an executed INCR,
\* is rejected by the store returns to the middleware (nothing is raised)
\* with remainingPoints = maxRequests and isFirstInDuration = true, and the
\* middleware does not block a request with that result.
C29_CheckFailsOpen ==
    /\ [](\A w \in Workers :
            (rl[w].pc = "checked" /\ rl[w].info.error)
            => /\ rl[w].info.remainingPoints = MaxRequests
               /\ rl[w].info.isFirstInDuration
               /\ ~Blocked(rl[w].info))
    /\ [][\A w \in Workers :
            (/\ rl[w].pc \in {"incr", "expire"}
             /\ rl'[w] # rl[w]
             /\ rlUsed'.errors # rlUsed.errors)
            => /\ rl'[w].pc = "checked"
               /\ rl'[w].info.error
      ]_vars

\* the only call so far had its INCR executed and its EXPIRE rejected: the
\* counter is left at 1 without an expiry and the call returned the
\* permissive result
C29_Witness ==
    \E w \in Workers :
        /\ rl[w].pc = "checked"
        /\ rl[w].info.error
        /\ rl[w].info.remainingPoints = MaxRequests
        /\ rlUsed.calls = 1
        /\ rlUsed.errors = 1
        /\ <<rl[w].key, WindowOf(now)>> \in rlUsed.hit
        /\ rlCounters[<<rl[w].key, WindowOf(now)>>].present
        /\ rlCounters[<<rl[w].key, WindowOf(now)>>].count = 1
        /\ rlCounters[<<rl[w].key, WindowOf(now)>>].exp = NoExpiry


\* C30: the identifier extractTenantContext looks up is the X-Tenant-ID
\* header when the request has one, else the subdomain of the host when it
\* has one, else the tenant claim of the bearer token; and a request with a
\* header that names a tenant and a host with a tenant subdomain resolves
\* to the tenant of the header.
C30_HeaderThenSubdomainThenToken ==
    \A q \in Requests :
        /\ tm[q].pc \in {"findFirst", "done"}
           => tm[q].identifier =
                IF tm[q].header # "" THEN tm[q].header
                ELSE IF HostSubdomain(tm[q].host) # "" THEN HostSubdomain(tm[q].host)
                ELSE TokenTenant(tm[q].auth)
        /\ (/\ tm[q].pc = "done"
            /\ ~tm[q].failed
            /\ tm[q].header \in Tenants
            /\ platformTenants[tm[q].header] # "MISSING"
            /\ HostSubdomain(tm[q].host) # "")
           => tm[q].result = tm[q].header


\* C33: in a run without resets and store errors, the decrement that
\* follows a skipped response (status below 400 with skipSuccessfulRequests)
\* takes one off the counter of the window in which the request was
\* counted, if that counter is still there, and changes no counter of
\* another window or key.
C33_SkippedRequestUncounted ==
    [][\A w \in Workers :
         LET rk == <<rl[w].key, rl[w].counted>>
         IN  (/\ rl[w].pc = "decr"
              /\ rl'[w].pc = "idle"
              /\ rlUsed'.errors = 0
              /\ rlUsed.resets = 0)
             => /\ \A other \in RlRedisKeys \ {rk} :
                     rlCounters'[other] = rlCounters[other]
                /\ rlCounters[rk].present
                   => /\ rlCounters'[rk].present
                      /\ rlCounters'[rk].count = rlCounters[rk].count - 1
      ]_vars

\* C39: as long as no store call has failed, every rate-limit counter in
\* the store holds a value >= 1, and every checkRateLimit that has returned
\* reports totalHits >= 1.
C39_CountersAtLeastOne ==
    rlUsed.errors = 0
    => /\ \A rk \in RlRedisKeys :
            rlCounters[rk].present => rlCounters[rk].count >= 1
       /\ \A w \in Workers :
            rl[w].pc = "checked" => rl[w].info.totalHits >= 1


\* C36: the handle a getTenantDb call returns is, at the moment of the
\* return, open and not being closed: no closeTenantDb and no
\* closeAllTenantConnections has called $disconnect() on it.
C36_NoClosingHandleReturned ==
    [][\A w \in Workers :
         (reg[w].pc # "done" /\ reg'[w].pc = "done" /\ reg'[w].result = "ok")
         => LET c == reg'[w].client
            IN  /\ clients'[c].state = "open"
                /\ \A r \in Closers :
                     /\ ~(rel'[r].pc = "disconnect" /\ rel'[r].client = c)
                     /\ c \notin rel'[r].pending
      ]_vars

\* C37: no getTenantDb call that finds a handle for its tenant in the Map
\* returns it while the tenant's status in the platform database is
\* SUSPENDED or CANCELLED (the handle was cached while the tenant was still
\* ACTIVE or TRIAL).
C37_NoHandleForInactiveTenant ==
    [][\A w \in Workers :
         (/\ reg[w].pc = "idle"
          /\ reg'[w].pc = "done"
          /\ reg'[w].result = "ok"
          /\ tenantConnections[reg'[w].tenant] # 0)
         => platformTenants[reg'[w].tenant] \notin {"SUSPENDED", "CANCELLED"}
      ]_vars


\* C35: while a caller holds the result true of destroySession(S), the
\* session key of S is not in the store, whatever other calls on S run
\* concurrently with the destroy or finish after it.
C35_DestroyedStaysAbsent ==
    \A w \in Workers :
        (sess[w].pc = "done" /\ sess[w].op = "destroy" /\ sess[w].ok)
        => ~sessKeys[sess[w].sid].present


\* C38: when createSession has thrown, the store holds no session key for
\* the id the call generated and the user's session set does not contain
\* that id, whichever of the three store commands was rejected.
C38_FailedCreateLeavesNothing ==
    \A w \in SessionCallers :
        (sess[w].pc = "done" /\ sess[w].op = "create" /\ ~sess[w].ok)
        => /\ ~sessKeys[sess[w].sid].present
           /\ sess[w].sid \notin userSets[UserSessionsKey(sess[w].user)].members


\* C40: no cache operation creates, overwrites or deletes a session key, a
\* user session set or a rate-limit counter: a step of a cache call leaves
\* the session keys, the user session sets and the counters as they were
C40_CacheLeavesOtherKeys ==
    [][cache' # cache => UNCHANGED <<sessKeys, userSets, rlCounters>>]_vars

\* C34: after invalidateTenantCache(T) has returned its count, no entry
\* cached for tenant T through setKPIData, setCustomerData, setProductData
\* or setInvoiceData is read by the matching getter, and the deleting step
\* leaves the entries of the other tenants as they were
C34_TenantCacheCleared ==
    /\ [](\A w \in CacheCallers, t \in CacheTenants :
            (/\ cache[w].pc = "done"
             /\ cache[w].op = "invalidatePattern"
             /\ cache[w].key = <<"*">>
             /\ cache[w].ns = <<t>>
             /\ ~cache[w].failed)
            => \A ck \in HelperKeys(t) : GetValue(ck) = "null")
    /\ [][\A w \in CacheCallers, t \in CacheTenants :
            (/\ cache[w].pc = "del"
             /\ cache[w].ns = <<t>>
             /\ cache'[w].pc = "done")
            => \A o \in CacheTenants \ {t} : \A ck \in HelperKeys(o) :
                    cacheStore'[ck] = cacheStore[ck]]_vars

\* C31: for a resolved tenant, status Suspended and status Cancelled are
\* answered with HTTP 403 and two different error codes, without next() and
\* without a handle on the request, and no getTenantDb call is begun for a
\* tenant of such a status; next() is called only for status Active or
\* Trial, with the tenant id and the handle that the registry holds for the
\* tenant on the request.
C31_InactiveRejectedActiveAttached ==
    /\ [](\A q \in Requests :
            /\ (tm[q].pc = "responded" /\ tm[q].info = "SUSPENDED")
               => /\ tm[q].http = 403
                  /\ tm[q].code = "TENANT_ACCOUNT_IS_SUSPENDED"
                  /\ ~tm[q].next /\ tm[q].tenantDb = 0
            /\ (tm[q].pc = "responded" /\ tm[q].info = "CANCELLED")
               => /\ tm[q].http = 403
                  /\ tm[q].code = "TENANT_ACCOUNT_IS_CANCELLED"
                  /\ ~tm[q].next /\ tm[q].tenantDb = 0
            /\ tm[q].next
               => /\ tm[q].info \in {"ACTIVE", "TRIAL"}
                  /\ tm[q].tenantId = tm[q].result
                  /\ tm[q].tenantDb # 0
                  /\ tm[q].tenantDb = tenantConnections[tm[q].tenantId]
                  /\ tm[q].http = 0)
    /\ [][\A q \in Requests :
            (reg[WorkerOf(q)].pc = "idle" /\ reg'[WorkerOf(q)].pc # "idle")
            => /\ tm[q].info \in {"ACTIVE", "TRIAL"}
               /\ platformTenants[reg'[WorkerOf(q)].tenant] \in {"ACTIVE", "TRIAL"}
       ]_vars

\* a request for a cancelled tenant was answered 403 after an earlier request
\* had been given a connection
C31_Witness ==
    \E q \in Requests :
        /\ tm[q].pc = "responded"
        /\ tm[q].info = "CANCELLED"
        /\ tm[q].http = 403
        /\ clients # <<>>

\* C32: a request that carries a tenant identifier and fails while the
\* identifier is resolved is answered with a reason of that failure, never
\* with the answer of a request without identifier; it is passed on only
\* with the tenant context, and it ends either passed on or answered with an
\* error, not both.
C32_SuppliedIdentifierTypedRejection ==
    \A q \in Requests :
        (tm[q].pc = "responded" /\ tm[q].identifier # "")
        => /\ tm[q].code # "TENANT_REQUIRED"
           /\ tm[q].next => (tm[q].tenantId # "" /\ tm[q].tenantDb # 0)
           /\ tm[q].next # (tm[q].http # 0)

SpecRelease == Init /\ [][NextRelease]_vars

SpecRegistry == Init /\ [][NextRegistry]_vars

\* tenant resolution of the tenant middleware
SpecTenant == Init /\ [][NextTenant]_vars

\* the session service with two concurrent callers on one session
SpecSessionRace == Init /\ [][NextSessionRace]_vars

\* createSession with store errors
SpecSessionFault == Init /\ [][NextSessionFault]_vars

SpecTenantMiddleware == Init /\ [][NextTenantMiddleware]_vars

SpecTenantCache == Init /\ [][NextTenantCache]_vars

SpecSharedStore == Init /\ [][NextSharedStore]_vars

SpecRateLimit == Init /\ [][NextRateLimit]_vars

\* the rate limiter with resets and status reads on two keys
SpecRateAdmin == Init /\ [][NextRateAdmin]_vars

SpecCache == Init /\ [][NextCache]_vars

SpecCacheFault == Init /\ [][NextCacheFault]_vars

SpecCacheRace == Init /\ [][NextCacheRace]_vars

SpecCacheWrites == Init /\ [][NextCacheWrites]_vars

SpecCacheCounter == Init /\ [][NextCacheCounter]_vars

SpecSession == Init /\ [][NextSession]_vars

SpecSessionData == Init /\ [][NextSessionData]_vars

=============================================================================
